---- MODULE Spec2Model ----
(***************************************************************************)
(* Drag-to-new-tab reordering engine of chrome_plus (src/src/tabbookmark.cc)*)
(* as a state machine: one action per handler of MouseProc and per timer   *)
(* procedure.  The UI probe (GetTopContainerView, GetTabs, GetSelectedTab, *)
(* IsOnTheTabBar, IsOnNewTabButton), the command issuer (SelectTab,        *)
(* ExecuteCommand), the key state (IsPressed) and the configuration are    *)
(* outside these sources: what they return is an input of each handler,    *)
(* drawn from small sets.  Handlers run one at a time (one hook thread).   *)
(* KillTimer destroys a timer: a killed timer does not fire.               *)
(***************************************************************************)
EXTENDS Integers, Sequences, FiniteSets, TLC

VARIABLES
  config_mode,                   \* config.GetDragNewTabMode()
  lbutton_down_point,            \* tabbookmark.cc:14
  drag_new_tab_state,            \* tabbookmark.cc:16-29
  drag_new_tab_timer,            \* tabbookmark.cc:30 (0 = no handle)
  drag_new_tab_restore_timer,    \* tabbookmark.cc:31 (0 = no handle)
  drag_new_tab_restore_tab,      \* tabbookmark.cc:32 (0 = nullptr)
  drag_new_tab_restore_attempts, \* tabbookmark.cc:33
  poll_timers,                   \* live timers whose procedure is DragNewTabTimerProc
  restore_timers,                \* live timers whose procedure is DragNewTabRestoreTimerProc
  cmds,                          \* commands the last handler issued, in order
  host,                          \* the tab strip as a timer fire left it
  last,                          \* which handler ran last and which way it went
  fn                             \* SpecFire: the probe's answer to the one fire, and its results

vars == <<config_mode, lbutton_down_point, drag_new_tab_state, drag_new_tab_timer,
          drag_new_tab_restore_timer, drag_new_tab_restore_tab,
          drag_new_tab_restore_attempts, poll_timers, restore_timers, cmds, host,
          last, fn>>

----------------------------------------------------------------------------
(* Bounds of the model *)

\* Number of tab identities the host can show.
NumTabs == 2

\* Longest tab list the host reports.
MaxTabs == 2

\* Timer identifiers SetTimer can hand out.
MaxTimers == 3

\* Tab identities and longest list of the single-fire specification.
FireNumTabs == 4

FireMaxTabs == 3

(* Program constants *)

kDragNewTabMaxAttempts == 12

kDragNewTabRestoreAttempts == 4

\* GetSystemMetrics(SM_CXDRAG), GetSystemMetrics(SM_CYDRAG)
dragThresholdX == 1

dragThresholdY == 1

NoTab == 0

NoWnd == 0

Pt(x, y) == [x |-> x, y |-> y]

NoPoint == Pt(-1, -1)

Tabs == 1..NumTabs

Windows == {1, 2}

TimerIds == 1..MaxTimers

Modes == {0, 1, 2}

PressPoints == {Pt(0, 0)}

ReleasePoints == {Pt(0, 2)}

Range(s) == {s[i] : i \in 1..Len(s)}

Min(S) == CHOOSE x \in S : \A y \in S : x <= y

Abs(n) == IF n < 0 THEN -n ELSE n

\* Ordered lists of distinct tab identities, as GetTabs returns them.
ListsOver(ids, n) ==
  UNION {{s \in [1..k -> ids] : \A i, j \in 1..k : i < j => s[i] # s[j]} : k \in 0..n}

TabLists == ListsOver(Tabs, MaxTabs)

\* What the probe answers for one container: GetTabs and GetSelectedTab.  The
\* selected tab may be none, and may be a tab the list does not show yet.
ViewsOver(lists, ids) == {[tabs |-> t, sel |-> x] : t \in lists, x \in {NoTab} \cup ids}

Views == ViewsOver(TabLists, Tabs)

NoView == [seen |-> FALSE, tabs |-> <<>>, sel |-> NoTab]

Seen(h) == [seen |-> TRUE, tabs |-> h.tabs, sel |-> h.sel]

SelectCmd(tab) == [cmd |-> "select", tab |-> tab]

MoveCmd(hwnd) == [cmd |-> "move_next", hwnd |-> hwnd]

----------------------------------------------------------------------------
(* The globals of tabbookmark.cc and the live timers, as one record, so    *)
(* that a handler is the composition of the functions it calls.            *)

Globals ==
  [s |-> drag_new_tab_state,
   timer |-> drag_new_tab_timer,
   rtimer |-> drag_new_tab_restore_timer,
   rtab |-> drag_new_tab_restore_tab,
   ratt |-> drag_new_tab_restore_attempts,
   polls |-> poll_timers,
   restores |-> restore_timers]

Commit(m) ==
  /\ drag_new_tab_state' = m.s
  /\ drag_new_tab_timer' = m.timer
  /\ drag_new_tab_restore_timer' = m.rtimer
  /\ drag_new_tab_restore_tab' = m.rtab
  /\ drag_new_tab_restore_attempts' = m.ratt
  /\ poll_timers' = m.polls
  /\ restore_timers' = m.restores

DragNewTabState ==
  [mode |-> 0, hwnd |-> NoWnd, drop_point |-> NoPoint, start_tab_count |-> 0,
   start_selected_tab |-> NoTab, start_selected_index |-> -1, start_tabs |-> <<>>,
   check_attempts |-> 0, armed |-> FALSE, pending |-> FALSE]

\* SetTimer(nullptr, 0, ...): a new identifier, different from every live timer's.
SetTimer(m) ==
  LET free == TimerIds \ (m.polls \cup m.restores)
  IN IF free = {} THEN 0 ELSE Min(free)

KillTimer(m, id) ==
  [m EXCEPT !.polls = @ \ {id}, !.restores = @ \ {id}]

\* drag_new_tab_timer = SetTimer(..., DragNewTabTimerProc)
SetPollTimer(m) ==
  LET id == SetTimer(m)
  IN [m EXCEPT !.timer = id, !.polls = IF id = 0 THEN @ ELSE @ \cup {id}]

\* Mutant: the handle is forgotten, the timer is not killed.
CancelPollTimerNoKill(m) == [m EXCEPT !.timer = 0]

\* if (drag_new_tab_timer != 0) { KillTimer(...); drag_new_tab_timer = 0; }
CancelPollTimer(m) ==
  IF m.timer # 0 THEN [KillTimer(m, m.timer) EXCEPT !.timer = 0] ELSE m

\* if (drag_new_tab_restore_timer != 0) { KillTimer(...); ... = 0; } and the
\* two assignments that clear the restore ticket.
ClearRestoreTicket(m) ==
  LET k == IF m.rtimer # 0 THEN KillTimer(m, m.rtimer) ELSE m
  IN [k EXCEPT !.rtimer = 0, !.rtab = NoTab, !.ratt = 0]

IsDragNewTabEnabled == config_mode = 1 \/ config_mode = 2

\* Mutant: a displacement equal to the threshold counts as a drag.
HandleDragAtThreshold(pt) ==
  IF lbutton_down_point.x < 0 \/ lbutton_down_point.y < 0
  THEN FALSE
  ELSE LET dx == pt.x - lbutton_down_point.x
           dy == pt.y - lbutton_down_point.y
       IN Abs(dx) >= dragThresholdX \/ Abs(dy) >= dragThresholdY

HandleDrag(pt) ==
  IF lbutton_down_point.x < 0 \/ lbutton_down_point.y < 0
  THEN FALSE
  ELSE LET dx == pt.x - lbutton_down_point.x
           dy == pt.y - lbutton_down_point.y
       IN Abs(dx) > dragThresholdX \/ Abs(dy) > dragThresholdY

ResetDragNewTabState(m) ==
  [ClearRestoreTicket(m) EXCEPT !.s = DragNewTabState]

\* Mutant: the new tab is taken to be the last of a list that grew.
FindNewTabAtEnd(m, tabs) ==
  IF m.s.start_tabs = <<>> \/ Len(tabs) <= Len(m.s.start_tabs)
  THEN NoTab
  ELSE tabs[Len(tabs)]

FindNewTabAfterDrag(m, tabs) ==
  IF m.s.start_tabs = <<>>
  THEN NoTab
  ELSE LET fresh == {i \in 1..Len(tabs) : tabs[i] \notin Range(m.s.start_tabs)}
       IN IF fresh = {} THEN NoTab ELSE tabs[Min(fresh)]

GetTabIndex(tabs, target_tab) ==
  IF target_tab = NoTab
  THEN -1
  ELSE LET at == {i \in 1..Len(tabs) : tabs[i] = target_tab}
       IN IF at = {} THEN -1 ELSE Min(at) - 1

IsTabInList(tabs, target_tab) == GetTabIndex(tabs, target_tab) >= 0

\* Mutant: a snapshot without tabs counts as taken.
InitDragNewTabStateAnySnapshot(m, hwnd, tcv, view) ==
  IF config_mode # 1 /\ config_mode # 2
  THEN [m |-> ResetDragNewTabState(m), ok |-> FALSE]
  ELSE IF hwnd = NoWnd \/ ~tcv
  THEN [m |-> ResetDragNewTabState(m), ok |-> FALSE]
  ELSE [m |-> [m EXCEPT !.s.mode = config_mode,
                        !.s.hwnd = hwnd,
                        !.s.start_tab_count = Len(view.tabs),
                        !.s.start_selected_tab = view.sel,
                        !.s.start_tabs = view.tabs,
                        !.s.start_selected_index = GetTabIndex(view.tabs, view.sel)],
        ok |-> TRUE]

\* Returns the globals and the function's result.
InitDragNewTabState(m, hwnd, tcv, view) ==
  IF config_mode # 1 /\ config_mode # 2
  THEN [m |-> ResetDragNewTabState(m), ok |-> FALSE]
  ELSE IF hwnd = NoWnd \/ ~tcv
  THEN [m |-> ResetDragNewTabState(m), ok |-> FALSE]
  ELSE [m |-> [m EXCEPT !.s.mode = config_mode,
                        !.s.hwnd = hwnd,
                        !.s.start_tab_count = Len(view.tabs),
                        !.s.start_selected_tab = view.sel,
                        !.s.start_tabs = view.tabs,
                        !.s.start_selected_index = GetTabIndex(view.tabs, view.sel)],
        ok |-> view.tabs # <<>>]

GetTabByIndex(tabs, index) ==
  IF index < 0 \/ index >= Len(tabs) THEN NoTab ELSE tabs[index + 1]

\* Mutant: the distance is counted from the list's size, not its last index.
GetMoveStepsPastEnd(tabs, target_tab) ==
  LET index == GetTabIndex(tabs, target_tab)
  IN IF index < 0 THEN 0 ELSE Len(tabs) - index

GetMoveStepsToEnd(tabs, target_tab) ==
  LET index == GetTabIndex(tabs, target_tab)
      last_index == Len(tabs) - 1
  IN IF index < 0 THEN 0
     ELSE IF last_index > index THEN last_index - index ELSE 0

\* Mutant: the original index alone decides, the identity is not looked up.
ResolveRestoreTabByIndex(m, tabs) ==
  GetTabByIndex(tabs, m.s.start_selected_index)

\* Mutant: without the identity in the list there is no restore target.
ResolveRestoreTabIdentityOnly(m, tabs) ==
  LET index == GetTabIndex(tabs, m.s.start_selected_tab)
  IN IF m.s.start_selected_tab # NoTab /\ index >= 0
     THEN tabs[index + 1]
     ELSE NoTab

ResolveRestoreTab(m, tabs) ==
  LET index == GetTabIndex(tabs, m.s.start_selected_tab)
  IN IF m.s.start_selected_tab # NoTab /\ index >= 0
     THEN tabs[index + 1]
     ELSE GetTabByIndex(tabs, m.s.start_selected_index)

\* The commands MoveSelectedTabToEnd issues.
MoveSelectedTabToEnd(hwnd, steps) ==
  IF hwnd = NoWnd \/ steps <= 0 THEN <<>> ELSE [i \in 1..steps |-> MoveCmd(hwnd)]

----------------------------------------------------------------------------
(* The host's side of the two commands.                                    *)

\* SelectTab(tab): out = "fail": returns false; "lag": returns true, the
\* selection is not (yet) changed; "ok": returns true and tab is selected.
SelectOutcomes == {"fail", "lag", "ok"}

HostSelect(h, tab, out) ==
  IF out = "ok" THEN [h EXCEPT !.sel = tab] ELSE h

\* IDC_MOVE_TAB_NEXT: the selected tab moves one position toward the end.
HostMoveNext(h) ==
  LET i == GetTabIndex(h.tabs, h.sel) + 1
  IN IF i < 1 \/ i >= Len(h.tabs)
     THEN h
     ELSE [h EXCEPT !.tabs = [k \in 1..Len(h.tabs) |->
                                IF k = i THEN h.tabs[i + 1]
                                ELSE IF k = i + 1 THEN h.tabs[i]
                                ELSE h.tabs[k]]]

RECURSIVE HostMoveSteps(_, _)
HostMoveSteps(h, n) == IF n <= 0 THEN h ELSE HostMoveSteps(HostMoveNext(h), n - 1)

----------------------------------------------------------------------------
(* Timer procedures and the queueing functions.  A timer procedure returns *)
(* the globals, the commands issued, the tab strip as the fire left it     *)
(* (when it reached the probe), which way it went, the tab it worked on,   *)
(* whether that tab was confirmed selected, the restore target it selected *)
(* and whether the fire ended the poll session or the restore              *)
(* verification.                                                           *)

Outcome(m, c, h, out, new_tab, selected, target, ends) ==
  [m |-> m, cmds |-> c, host |-> h, out |-> out, new_tab |-> new_tab,
   selected |-> selected, target |-> target, ends |-> ends]

\* Placeholder for an answer of the probe the handler does not ask for.
AnyView == [tabs |-> <<>>, sel |-> NoTab]

\* KillTimer(nullptr, timer_id); drag_new_tab_restore_timer = 0;
\* drag_new_tab_restore_tab = nullptr;
CancelRestoreTimer(m, timer_id) ==
  [KillTimer(m, timer_id) EXCEPT !.rtimer = 0, !.rtab = NoTab]

\* Mutant: a restore fire does not use up an attempt.
DragNewTabRestoreTimerProcNoDecrement(m, timer_id, tcv, view, out) ==
  IF m.ratt <= 0
  THEN Outcome(CancelRestoreTimer(m, timer_id), <<>>, NoView, "expired", NoTab,
               FALSE, NoTab, TRUE)
  ELSE
    LET m1 == m
        restore_tab == ResolveRestoreTab(m1, view.tabs)
        selected_tab == view.sel
        issue == selected_tab = NoTab \/ selected_tab # restore_tab
        c == IF issue THEN <<SelectCmd(restore_tab)>> ELSE <<>>
        h == IF issue THEN HostSelect(view, restore_tab, out) ELSE view
        ends == m1.ratt <= 0
        m2 == IF ends THEN CancelRestoreTimer(m1, timer_id) ELSE m1
    IN IF m1.s.hwnd = NoWnd
       THEN Outcome(CancelRestoreTimer(m1, timer_id), <<>>, NoView, "unbound", NoTab,
                    FALSE, NoTab, TRUE)
       ELSE IF ~tcv
       THEN Outcome(m1, <<>>, NoView, "no_container", NoTab, FALSE, NoTab, FALSE)
       ELSE IF restore_tab = NoTab
       THEN Outcome(m1, <<>>, Seen(view), "no_target", NoTab, FALSE, NoTab, FALSE)
       ELSE Outcome(m2, c, Seen(h), "verified", NoTab, FALSE, restore_tab, ends)

\* Mutant: a restore fire without a target starts the poll cycle again.
DragNewTabRestoreTimerProcRepolls(m, timer_id, tcv, view, out) ==
  IF m.ratt <= 0
  THEN Outcome(CancelRestoreTimer(m, timer_id), <<>>, NoView, "expired", NoTab,
               FALSE, NoTab, TRUE)
  ELSE
    LET m1 == [m EXCEPT !.ratt = @ - 1]
        restore_tab == ResolveRestoreTab(m1, view.tabs)
        selected_tab == view.sel
        issue == selected_tab = NoTab \/ selected_tab # restore_tab
        c == IF issue THEN <<SelectCmd(restore_tab)>> ELSE <<>>
        h == IF issue THEN HostSelect(view, restore_tab, out) ELSE view
        ends == m1.ratt <= 0
        m2 == IF ends THEN CancelRestoreTimer(m1, timer_id) ELSE m1
    IN IF m1.s.hwnd = NoWnd
       THEN Outcome(CancelRestoreTimer(m1, timer_id), <<>>, NoView, "unbound", NoTab,
                    FALSE, NoTab, TRUE)
       ELSE IF ~tcv
       THEN Outcome(m1, <<>>, NoView, "no_container", NoTab, FALSE, NoTab, FALSE)
       ELSE IF restore_tab = NoTab
       THEN Outcome(SetPollTimer([m1 EXCEPT !.s.pending = TRUE]), <<>>, Seen(view),
                    "no_target", NoTab, FALSE, NoTab, FALSE)
       ELSE Outcome(m2, c, Seen(h), "verified", NoTab, FALSE, restore_tab, ends)

DragNewTabRestoreTimerProc(m, timer_id, tcv, view, out) ==
  IF m.ratt <= 0
  THEN Outcome(CancelRestoreTimer(m, timer_id), <<>>, NoView, "expired", NoTab,
               FALSE, NoTab, TRUE)
  ELSE
    LET m1 == [m EXCEPT !.ratt = @ - 1]
        restore_tab == ResolveRestoreTab(m1, view.tabs)
        selected_tab == view.sel
        issue == selected_tab = NoTab \/ selected_tab # restore_tab
        c == IF issue THEN <<SelectCmd(restore_tab)>> ELSE <<>>
        h == IF issue THEN HostSelect(view, restore_tab, out) ELSE view
        ends == m1.ratt <= 0
        m2 == IF ends THEN CancelRestoreTimer(m1, timer_id) ELSE m1
    IN IF m1.s.hwnd = NoWnd
       THEN Outcome(CancelRestoreTimer(m1, timer_id), <<>>, NoView, "unbound", NoTab,
                    FALSE, NoTab, TRUE)
       ELSE IF ~tcv
       THEN Outcome(m1, <<>>, NoView, "no_container", NoTab, FALSE, NoTab, FALSE)
       ELSE IF restore_tab = NoTab
       THEN Outcome(m1, <<>>, Seen(view), "no_target", NoTab, FALSE, NoTab, FALSE)
       ELSE Outcome(m2, c, Seen(h), "verified", NoTab, FALSE, restore_tab, ends)

QueueDragNewTabRestore(m, tab) ==
  LET c == ClearRestoreTicket(m)
      id == SetTimer(c)
  IN IF tab = NoTab
     THEN c
     ELSE [c EXCEPT !.rtab = tab,
                    !.ratt = kDragNewTabRestoreAttempts,
                    !.rtimer = id,
                    !.restores = IF id = 0 THEN @ ELSE @ \cup {id}]

\* Mutant: the fire that ends the session leaves it pending.
EndSessionStillPending(m) ==
  [m EXCEPT !.s.check_attempts = 0, !.s.start_tabs = <<>>, !.s.armed = FALSE]

\* Lines 467-470: the session ends.
EndSession(m) ==
  [m EXCEPT !.s.pending = FALSE, !.s.check_attempts = 0, !.s.start_tabs = <<>>,
            !.s.armed = FALSE]

\* Lines 415-419: the new tab, or NoTab.
PollNewTab(m, view) ==
  LET found == FindNewTabAfterDrag(m, view.tabs)
  IN IF found = NoTab /\ view.sel # NoTab /\ ~IsTabInList(m.s.start_tabs, view.sel)
     THEN view.sel ELSE found

\* Mutant: SelectTab's return value is trusted, the selection is not read back.
EnsureSelectedTrusting(selected_tab, tab, out, now_selected) ==
  IF tab = NoTab THEN FALSE
  ELSE IF selected_tab # NoTab /\ selected_tab = tab THEN TRUE
  ELSE out # "fail"

\* Lines 428-440: the lambda ensure_selected.  out is what SelectTab does and
\* now_selected the selection read back after it.
EnsureSelected(selected_tab, tab, out, now_selected) ==
  IF tab = NoTab THEN FALSE
  ELSE IF selected_tab # NoTab /\ selected_tab = tab THEN TRUE
  ELSE IF out = "fail" THEN FALSE
  ELSE now_selected # NoTab /\ now_selected = tab

\* Lines 450-453: the move commands of a fire.
PollMoveCmds(m, move_steps, new_tab_selected) ==
  IF move_steps > 0 /\ new_tab_selected
  THEN MoveSelectedTabToEnd(m.s.hwnd, move_steps)
  ELSE <<>>

\* Mutant: no restore when the fire found the restore target selected.
PollFinishUnlessTargetSelected(m, selected_tab, new_tab, new_tab_selected, c, h, restore_tab, out2) ==
  LET restoring == /\ m.s.mode = 2
                   /\ restore_tab # NoTab
                   /\ (selected_tab = NoTab \/ selected_tab # restore_tab)
      fallback == m.s.mode # 2 /\ ~new_tab_selected
  IN Outcome(EndSession(IF restoring THEN QueueDragNewTabRestore(m, restore_tab) ELSE m),
             IF restoring THEN c \o <<SelectCmd(restore_tab)>>
             ELSE IF fallback THEN c \o <<SelectCmd(new_tab)>> ELSE c,
             Seen(IF restoring THEN HostSelect(h, restore_tab, out2)
                  ELSE IF fallback THEN HostSelect(h, new_tab, out2) ELSE h),
             "done", new_tab, new_tab_selected,
             IF restoring THEN restore_tab ELSE NoTab, TRUE)

\* Lines 455-470: the restore selection of mode 2, the fallback selection
\* of mode 1, and the end of the session.  c and h are the commands issued
\* and the tab strip so far, restore_tab what line 456 resolved.
PollFinish(m, selected_tab, new_tab, new_tab_selected, c, h, restore_tab, out2) ==
  LET restoring == /\ m.s.mode = 2
                   /\ restore_tab # NoTab
                   /\ (selected_tab = NoTab \/ selected_tab # restore_tab
                       \/ new_tab_selected)
      fallback == m.s.mode # 2 /\ ~new_tab_selected
  IN Outcome(EndSession(IF restoring THEN QueueDragNewTabRestore(m, restore_tab) ELSE m),
             IF restoring THEN c \o <<SelectCmd(restore_tab)>>
             ELSE IF fallback THEN c \o <<SelectCmd(new_tab)>> ELSE c,
             Seen(IF restoring THEN HostSelect(h, restore_tab, out2)
                  ELSE IF fallback THEN HostSelect(h, new_tab, out2) ELSE h),
             "done", new_tab, new_tab_selected,
             IF restoring THEN restore_tab ELSE NoTab, TRUE)

\* Mutant: the restore target is resolved on the list read before the move.
PollMoveStaleList(m, selected_tab, new_tab, new_tab_selected, c, h, moves, moved, out2) ==
  LET h2 == IF moves # <<>> /\ moved THEN HostMoveSteps(h, Len(moves)) ELSE h
  IN PollFinish(m, selected_tab, new_tab, new_tab_selected, c \o moves, h2,
                ResolveRestoreTab(m, h.tabs), out2)

\* Lines 450-453: the move and the second GetTabs.  moved: the host has
\* carried out the move commands when the list is read again.
PollMove(m, selected_tab, new_tab, new_tab_selected, c, h, moves, moved, out2) ==
  LET h2 == IF moves # <<>> /\ moved THEN HostMoveSteps(h, Len(moves)) ELSE h
  IN PollFinish(m, selected_tab, new_tab, new_tab_selected, c \o moves, h2,
                ResolveRestoreTab(m, h2.tabs), out2)

\* Lines 442-449: retry when the new tab could not be selected and either
\* has to move or mode is 1.
PollEnsured(m, view, new_tab, move_steps, new_tab_selected, c, h, moved, out2) ==
  IF ~new_tab_selected /\ (move_steps > 0 \/ m.s.mode = 1)
  THEN Outcome(SetPollTimer(m), c, Seen(h), "retry", new_tab, FALSE, NoTab, FALSE)
  ELSE PollMove(m, view.sel, new_tab, new_tab_selected, c, h,
                PollMoveCmds(m, move_steps, new_tab_selected), moved, out2)

\* Mutant: the new tab is selected again although it is the selected tab.
PollFoundAlwaysSelects(m, view, new_tab, out, moved, out2) ==
  LET h == HostSelect(view, new_tab, out)
  IN IF new_tab = NoTab
     THEN Outcome(SetPollTimer(m), <<>>, Seen(view), "retry", NoTab, FALSE, NoTab, FALSE)
     ELSE PollEnsured(m, view, new_tab, GetMoveStepsToEnd(view.tabs, new_tab),
                      EnsureSelected(view.sel, new_tab, out, h.sel),
                      <<SelectCmd(new_tab)>>, h, moved, out2)

\* Lines 421-442: retry when there is no new tab, else ensure_selected(new_tab).
PollFound(m, view, new_tab, out, moved, out2) ==
  LET already == view.sel # NoTab /\ view.sel = new_tab
      h == IF already THEN view ELSE HostSelect(view, new_tab, out)
  IN IF new_tab = NoTab
     THEN Outcome(SetPollTimer(m), <<>>, Seen(view), "retry", NoTab, FALSE, NoTab, FALSE)
     ELSE PollEnsured(m, view, new_tab, GetMoveStepsToEnd(view.tabs, new_tab),
                      EnsureSelected(view.sel, new_tab, out, h.sel),
                      IF already THEN <<>> ELSE <<SelectCmd(new_tab)>>,
                      h, moved, out2)

\* Lines 413-471: the fire has a container and a snapshot.
DragNewTabPoll(m, view, out, moved, out2) ==
  PollFound(m, view, PollNewTab(m, view), out, moved, out2)

\* Mutant: the fire does not look at the attempts that are left.
DragNewTabTimerProcNoBudget(m, timer_id, tcv, view, out, moved, out2) ==
  LET m0 == [KillTimer(m, timer_id) EXCEPT !.timer = 0]
      m1 == [m0 EXCEPT !.s.check_attempts = @ - 1]
  IN IF ~m0.s.pending
     THEN Outcome(m0, <<>>, NoView, "idle", NoTab, FALSE, NoTab, FALSE)
     ELSE IF m1.s.mode # 1 /\ m1.s.mode # 2
     THEN Outcome(ResetDragNewTabState(m1), <<>>, NoView, "disabled", NoTab, FALSE,
                  NoTab, TRUE)
     ELSE IF ~tcv
     THEN Outcome(ResetDragNewTabState(m1), <<>>, NoView, "no_container", NoTab, FALSE,
                  NoTab, TRUE)
     ELSE IF m1.s.start_tabs = <<>>
     THEN Outcome(ResetDragNewTabState(m1), <<>>, NoView, "no_snapshot", NoTab, FALSE,
                  NoTab, TRUE)
     ELSE DragNewTabPoll(m1, view, out, moved, out2)

\* Mutant: a fire does not use up an attempt.
DragNewTabTimerProcNoDecrement(m, timer_id, tcv, view, out, moved, out2) ==
  LET m0 == [KillTimer(m, timer_id) EXCEPT !.timer = 0]
      m1 == m0
  IN IF ~m0.s.pending
     THEN Outcome(m0, <<>>, NoView, "idle", NoTab, FALSE, NoTab, FALSE)
     ELSE IF m0.s.check_attempts <= 0
     THEN Outcome(ResetDragNewTabState(m0), <<>>, NoView, "exhausted", NoTab, FALSE,
                  NoTab, TRUE)
     ELSE IF m1.s.mode # 1 /\ m1.s.mode # 2
     THEN Outcome(ResetDragNewTabState(m1), <<>>, NoView, "disabled", NoTab, FALSE,
                  NoTab, TRUE)
     ELSE IF ~tcv
     THEN Outcome(ResetDragNewTabState(m1), <<>>, NoView, "no_container", NoTab, FALSE,
                  NoTab, TRUE)
     ELSE IF m1.s.start_tabs = <<>>
     THEN Outcome(ResetDragNewTabState(m1), <<>>, NoView, "no_snapshot", NoTab, FALSE,
                  NoTab, TRUE)
     ELSE DragNewTabPoll(m1, view, out, moved, out2)

\* Mutant: a fire that finds no container tries again later.
DragNewTabTimerProcAwaitsContainer(m, timer_id, tcv, view, out, moved, out2) ==
  LET m0 == [KillTimer(m, timer_id) EXCEPT !.timer = 0]
      m1 == [m0 EXCEPT !.s.check_attempts = @ - 1]
  IN IF ~m0.s.pending
     THEN Outcome(m0, <<>>, NoView, "idle", NoTab, FALSE, NoTab, FALSE)
     ELSE IF m0.s.check_attempts <= 0
     THEN Outcome(ResetDragNewTabState(m0), <<>>, NoView, "exhausted", NoTab, FALSE,
                  NoTab, TRUE)
     ELSE IF m1.s.mode # 1 /\ m1.s.mode # 2
     THEN Outcome(ResetDragNewTabState(m1), <<>>, NoView, "disabled", NoTab, FALSE,
                  NoTab, TRUE)
     ELSE IF ~tcv
     THEN Outcome(SetPollTimer(m1), <<>>, NoView, "no_container", NoTab, FALSE,
                  NoTab, FALSE)
     ELSE IF m1.s.start_tabs = <<>>
     THEN Outcome(ResetDragNewTabState(m1), <<>>, NoView, "no_snapshot", NoTab, FALSE,
                  NoTab, TRUE)
     ELSE DragNewTabPoll(m1, view, out, moved, out2)

\* Mutant: the fire does not ask whether the session is pending.
DragNewTabTimerProcIgnoresPending(m, timer_id, tcv, view, out, moved, out2) ==
  LET m0 == [KillTimer(m, timer_id) EXCEPT !.timer = 0]
      m1 == [m0 EXCEPT !.s.check_attempts = @ - 1]
  IN IF m0.s.check_attempts <= 0
     THEN Outcome(ResetDragNewTabState(m0), <<>>, NoView, "exhausted", NoTab, FALSE,
                  NoTab, TRUE)
     ELSE IF m1.s.mode # 1 /\ m1.s.mode # 2
     THEN Outcome(ResetDragNewTabState(m1), <<>>, NoView, "disabled", NoTab, FALSE,
                  NoTab, TRUE)
     ELSE IF ~tcv
     THEN Outcome(ResetDragNewTabState(m1), <<>>, NoView, "no_container", NoTab, FALSE,
                  NoTab, TRUE)
     ELSE IF m1.s.start_tabs = <<>>
     THEN Outcome(ResetDragNewTabState(m1), <<>>, NoView, "no_snapshot", NoTab, FALSE,
                  NoTab, TRUE)
     ELSE DragNewTabPoll(m1, view, out, moved, out2)

DragNewTabTimerProc(m, timer_id, tcv, view, out, moved, out2) ==
  LET m0 == [KillTimer(m, timer_id) EXCEPT !.timer = 0]
      m1 == [m0 EXCEPT !.s.check_attempts = @ - 1]
  IN IF ~m0.s.pending
     THEN Outcome(m0, <<>>, NoView, "idle", NoTab, FALSE, NoTab, FALSE)
     ELSE IF m0.s.check_attempts <= 0
     THEN Outcome(ResetDragNewTabState(m0), <<>>, NoView, "exhausted", NoTab, FALSE,
                  NoTab, TRUE)
     ELSE IF m1.s.mode # 1 /\ m1.s.mode # 2
     THEN Outcome(ResetDragNewTabState(m1), <<>>, NoView, "disabled", NoTab, FALSE,
                  NoTab, TRUE)
     ELSE IF ~tcv
     THEN Outcome(ResetDragNewTabState(m1), <<>>, NoView, "no_container", NoTab, FALSE,
                  NoTab, TRUE)
     ELSE IF m1.s.start_tabs = <<>>
     THEN Outcome(ResetDragNewTabState(m1), <<>>, NoView, "no_snapshot", NoTab, FALSE,
                  NoTab, TRUE)
     ELSE DragNewTabPoll(m1, view, out, moved, out2)

\* Mutant: queuing leaves the restore timer and the restore ticket alone.
QueueDragNewTabCheckKeepsRestore(m, hwnd, tcv, pt, view) ==
  LET m1 == [m EXCEPT !.s.mode = config_mode]
      rebind == m1.s.start_tabs = <<>> \/ m1.s.hwnd # hwnd
      init == IF rebind THEN InitDragNewTabState(m1, hwnd, tcv, view)
              ELSE [m |-> m1, ok |-> TRUE]
      m2 == [init.m EXCEPT !.s.drop_point = pt,
                           !.s.pending = TRUE,
                           !.s.check_attempts = kDragNewTabMaxAttempts]
  IN IF config_mode # 1 /\ config_mode # 2
     THEN [m |-> ResetDragNewTabState(m), queued |-> FALSE]
     ELSE IF ~init.ok
     THEN [m |-> init.m, queued |-> FALSE]
     ELSE [m |-> SetPollTimer(CancelPollTimer(m2)), queued |-> TRUE]

\* Returns the globals and whether the check was queued.
QueueDragNewTabCheck(m, hwnd, tcv, pt, view) ==
  LET m1 == [m EXCEPT !.s.mode = config_mode]
      rebind == m1.s.start_tabs = <<>> \/ m1.s.hwnd # hwnd
      init == IF rebind THEN InitDragNewTabState(m1, hwnd, tcv, view)
              ELSE [m |-> m1, ok |-> TRUE]
      m2 == [ClearRestoreTicket(init.m) EXCEPT !.s.drop_point = pt,
                                               !.s.pending = TRUE,
                                               !.s.check_attempts = kDragNewTabMaxAttempts]
  IN IF config_mode # 1 /\ config_mode # 2
     THEN [m |-> ResetDragNewTabState(m), queued |-> FALSE]
     ELSE IF ~init.ok
     THEN [m |-> init.m, queued |-> FALSE]
     ELSE [m |-> SetPollTimer(CancelPollTimer(m2)), queued |-> TRUE]

----------------------------------------------------------------------------
(* The handlers.  Each records in last which way it went, in cmds the      *)
(* commands it issued and in host the tab strip it left.  With track, host *)
(* is the tab strip of the one browser window and the probe reads it; else *)
(* host holds what the fire that ended a session or a restore left.        *)

NoLast ==
  [ev |-> "none", out |-> "none", new_tab |-> NoTab, selected |-> FALSE,
   target |-> NoTab, was_armed |-> FALSE, was_pending |-> FALSE, pressed |-> FALSE,
   dist |-> Pt(0, 0), drag |-> FALSE, handled |-> FALSE, pt |-> NoPoint,
   on_strip |-> FALSE, had_poll |-> FALSE, had_restore |-> FALSE]

NoFn == [op |-> "none"]

KeepHost(track) == IF track THEN host ELSE NoView

RecordHost(r, track) ==
  IF r.host.seen /\ (track \/ r.ends) THEN r.host ELSE KeepHost(track)

HostView == [tabs |-> host.tabs, sel |-> host.sel]

\* How far the pointer is from the press, per axis.
Displacement(pt) ==
  IF lbutton_down_point = NoPoint
  THEN Pt(0, 0)
  ELSE Pt(Abs(pt.x - lbutton_down_point.x), Abs(pt.y - lbutton_down_point.y))

\* The initializers of the globals.
InitGlobals ==
  /\ lbutton_down_point = NoPoint
  /\ drag_new_tab_state = DragNewTabState
  /\ drag_new_tab_timer = 0
  /\ drag_new_tab_restore_timer = 0
  /\ drag_new_tab_restore_tab = NoTab
  /\ drag_new_tab_restore_attempts = 0
  /\ poll_timers = {}
  /\ restore_timers = {}
  /\ cmds = <<>>
  /\ last = NoLast
  /\ fn = NoFn

Init ==
  /\ config_mode \in Modes
  /\ host = NoView
  /\ InitGlobals

\* Mutant: the press keeps the snapshot of the session it interrupts.
OnLButtonDownKeepsSnapshot(pt, track) ==
  LET m == Globals
      m1 == CancelPollTimer([m EXCEPT !.s.armed = FALSE])
      m2 == [m1 EXCEPT !.s.pending = FALSE, !.s.check_attempts = 0]
  IN /\ lbutton_down_point' = pt
     /\ Commit(m2)
     /\ cmds' = <<>>
     /\ host' = KeepHost(track)
     /\ last' = [NoLast EXCEPT !.ev = "down", !.was_armed = m.s.armed,
                               !.was_pending = m.s.pending]
     /\ UNCHANGED <<config_mode, fn>>

\* case WM_LBUTTONDOWN
OnLButtonDown(pt, track) ==
  LET m == Globals
      m1 == CancelPollTimer([m EXCEPT !.s.armed = FALSE])
      m2 == [m1 EXCEPT !.s.pending = FALSE, !.s.check_attempts = 0,
                       !.s.start_tabs = <<>>]
  IN /\ lbutton_down_point' = pt
     /\ Commit(m2)
     /\ cmds' = <<>>
     /\ host' = KeepHost(track)
     /\ last' = [NoLast EXCEPT !.ev = "down", !.was_armed = m.s.armed,
                               !.was_pending = m.s.pending]
     /\ UNCHANGED <<config_mode, fn>>

\* The move reaches the arming statement; it takes a snapshot.
MoveArms(pressed, tcv, on_bar) == IsDragNewTabEnabled /\ pressed /\ tcv /\ on_bar

\* Mutant: a snapshot bound to another window is kept.
MoveRebindsIfEmpty(m, hwnd) == m.s.start_tabs = <<>>

MoveRebinds(m, hwnd) == m.s.start_tabs = <<>> \/ m.s.hwnd # hwnd

\* WM_MOUSEMOVE, WM_NCMOUSEMOVE
OnMouseMove(pressed, hwnd, tcv, on_bar, view, track) ==
  LET m == Globals
      m1 == [m EXCEPT !.s.armed = TRUE]
      m2 == IF MoveRebinds(m1, hwnd) THEN InitDragNewTabState(m1, hwnd, tcv, view).m
            ELSE m1
      arms == MoveArms(pressed, tcv, on_bar)
  IN /\ Commit(IF arms THEN m2 ELSE m)
     /\ cmds' = <<>>
     /\ host' = KeepHost(track)
     /\ last' = [NoLast EXCEPT !.ev = "move",
                               !.out = IF arms THEN "armed" ELSE "pass"]
     /\ UNCHANGED <<config_mode, lbutton_down_point>>

\* Mutant: a release on the new-tab button is a drop as well.
UpIsDropOnButton(m, pt, tcv, on_bar, on_btn) ==
  /\ IsDragNewTabEnabled
  /\ tcv /\ on_bar
  /\ (m.s.armed \/ HandleDrag(pt))

\* The condition of lines 598-600 under IsDragNewTabEnabled.
UpIsDrop(m, pt, tcv, on_bar, on_btn) ==
  /\ IsDragNewTabEnabled
  /\ tcv /\ on_bar /\ ~on_btn
  /\ (m.s.armed \/ HandleDrag(pt))

\* case WM_LBUTTONUP; bookmark is what HandleBookmark returns.
OnLButtonUp(pt, hwnd, tcv, on_bar, on_btn, view, bookmark, track) ==
  LET m == Globals
      drop == UpIsDrop(m, pt, tcv, on_bar, on_btn)
      q == QueueDragNewTabCheck(m, hwnd, tcv, pt, view)
      m1 == IF drop THEN [q.m EXCEPT !.s.armed = FALSE]
            ELSE [m EXCEPT !.s.armed = FALSE]
  IN /\ Commit(m1)
     /\ lbutton_down_point' = NoPoint
     /\ cmds' = <<>>
     /\ host' = KeepHost(track)
     /\ last' = [NoLast EXCEPT
                   !.ev = "up",
                   !.out = IF ~drop THEN "click"
                           ELSE IF q.queued THEN "queued" ELSE "aborted",
                   !.was_armed = m.s.armed,
                   !.pressed = lbutton_down_point # NoPoint,
                   !.dist = Displacement(pt),
                   !.drag = HandleDrag(pt),
                   !.handled = ~drop /\ bookmark,
                   !.pt = pt,
                   !.on_strip = tcv /\ on_bar /\ ~on_btn,
                   !.had_poll = poll_timers # {},
                   !.had_restore = restore_timers # {}]
     /\ UNCHANGED <<config_mode, fn>>

\* What a timer procedure leaves: r is what it returned.
TimerProcReturns(ev, r, track) ==
  /\ Commit(r.m)
  /\ cmds' = r.cmds
  /\ host' = RecordHost(r, track)
  /\ last' = [NoLast EXCEPT !.ev = ev, !.out = r.out, !.new_tab = r.new_tab,
                            !.selected = r.selected, !.target = r.target]
  /\ UNCHANGED <<config_mode, lbutton_down_point>>

OnPollTimer(timer_id, tcv, view, out, moved, out2, track) ==
  TimerProcReturns("poll",
                   DragNewTabTimerProc(Globals, timer_id, tcv, view, out, moved, out2),
                   track)

OnRestoreTimer(timer_id, tcv, view, out, track) ==
  /\ TimerProcReturns("restore",
                      DragNewTabRestoreTimerProc(Globals, timer_id, tcv, view, out),
                      track)
  /\ UNCHANGED fn

----------------------------------------------------------------------------
(* The environment: which events arrive, and what the probe and the host   *)
(* answer.  An answer is drawn only where the handler asks for it.         *)

LButtonDown(P, track) == \E pt \in P : OnLButtonDown(pt, track)

MouseMove(W, V, track) ==
  /\ UNCHANGED fn
  /\ \E pressed, tcv, on_bar \in BOOLEAN, hwnd \in W :
    IF ~MoveArms(pressed, tcv, on_bar)
    THEN /\ ~pressed /\ ~tcv /\ ~on_bar /\ hwnd = Min(W)
         /\ OnMouseMove(pressed, hwnd, tcv, on_bar, AnyView, track)
    ELSE IF ~MoveRebinds(Globals, hwnd)
    THEN OnMouseMove(pressed, hwnd, tcv, on_bar, AnyView, track)
    ELSE \E view \in V : OnMouseMove(pressed, hwnd, tcv, on_bar, view, track)

\* A release that is no drop is either on the tab strip or off the tab bar.
LButtonUp(P, W, V, track) ==
  \E pt \in P, tcv, on_bar, on_btn \in BOOLEAN, hwnd \in W :
    IF ~UpIsDrop(Globals, pt, tcv, on_bar, on_btn)
    THEN /\ tcv = on_bar /\ ~on_btn /\ hwnd = Min(W)
         /\ \E bookmark \in BOOLEAN :
              OnLButtonUp(pt, hwnd, tcv, on_bar, on_btn, AnyView, bookmark, track)
    ELSE IF ~MoveRebinds(Globals, hwnd)
    THEN OnLButtonUp(pt, hwnd, tcv, on_bar, on_btn, AnyView, FALSE, track)
    ELSE \E view \in V :
           OnLButtonUp(pt, hwnd, tcv, on_bar, on_btn, view, FALSE, track)

PollReturnsEarly ==
  \/ ~drag_new_tab_state.pending
  \/ drag_new_tab_state.check_attempts <= 0
  \/ drag_new_tab_state.mode \notin {1, 2}

\* C: whether GetTopContainerView finds the container; O: what the host does
\* with a select command (a host that lags may also not have moved the tab).
PollFireOf(timer_id, C, V, O, track) ==
  IF PollReturnsEarly
  THEN OnPollTimer(timer_id, FALSE, AnyView, "ok", FALSE, "ok", track)
  ELSE \E tcv \in C :
         IF ~tcv \/ drag_new_tab_state.start_tabs = <<>>
         THEN OnPollTimer(timer_id, tcv, AnyView, "ok", FALSE, "ok", track)
         ELSE \E view \in V :
                IF PollNewTab(Globals, view) = NoTab
                THEN OnPollTimer(timer_id, tcv, view, "ok", FALSE, "ok", track)
                ELSE \E out \in (IF view.sel = PollNewTab(Globals, view)
                                 THEN {"ok"} ELSE O),
                        moved \in {TRUE, "lag" \notin O},
                        out2 \in O \ {"fail"} :
                       OnPollTimer(timer_id, tcv, view, out, moved, out2, track)

PollTimerFires(C, V, O, track) ==
  \E timer_id \in poll_timers : PollFireOf(timer_id, C, V, O, track)

PollTimerFire(C, V, O, track) ==
  /\ UNCHANGED fn
  /\ PollTimerFires(C, V, O, track)

RestoreReturnsEarly ==
  drag_new_tab_restore_attempts <= 0 \/ drag_new_tab_state.hwnd = NoWnd

\* O: what the host does with a select command.
RestoreTimerFire(V, O, track) ==
  \E timer_id \in restore_timers :
    IF RestoreReturnsEarly
    THEN OnRestoreTimer(timer_id, FALSE, AnyView, "ok", track)
    ELSE \E tcv \in BOOLEAN :
           IF ~tcv
           THEN OnRestoreTimer(timer_id, tcv, AnyView, "ok", track)
           ELSE \E view \in V, out \in O :
                  OnRestoreTimer(timer_id, tcv, view, out, track)

\* The user edits the drag-new-tab mode; the engine reads it at its next decision.
ConfigChange(track) ==
  /\ config_mode' \in Modes \ {config_mode}
  /\ cmds' = <<>>
  /\ host' = KeepHost(track)
  /\ last' = [NoLast EXCEPT !.ev = "config"]
  /\ UNCHANGED <<lbutton_down_point, drag_new_tab_state, drag_new_tab_timer,
                 drag_new_tab_restore_timer, drag_new_tab_restore_tab,
                 drag_new_tab_restore_attempts, poll_timers, restore_timers, fn>>

Next ==
  \/ LButtonDown(PressPoints, FALSE)
  \/ MouseMove(Windows, Views, FALSE)
  \/ LButtonUp(ReleasePoints, Windows, Views, FALSE)
  \/ PollTimerFire(BOOLEAN, Views, SelectOutcomes, FALSE)
  \/ RestoreTimerFire(Views, {"lag", "ok"}, FALSE)
  \/ ConfigChange(FALSE)

Spec == Init /\ [][Next]_vars

----------------------------------------------------------------------------
(* Properties of the engine under Spec.                                    *)

\* C1: whenever pending is true the start snapshot is non-empty, also after
\* a move with the button held re-captures the snapshot while a check is
\* pending.
C1_PendingHasSnapshot ==
  drag_new_tab_state.pending => drag_new_tab_state.start_tabs # <<>>

\* C2: at most one poll timer and at most one restore timer are outstanding,
\* and an outstanding timer is the one its handle names: a timer is created
\* only after the previous one of its kind was killed.
C2_OneTimerPerKind ==
  /\ Cardinality(poll_timers) <= 1
  /\ Cardinality(restore_timers) <= 1
  /\ poll_timers = IF drag_new_tab_timer = 0 THEN {} ELSE {drag_new_tab_timer}
  /\ restore_timers =
       IF drag_new_tab_restore_timer = 0 THEN {} ELSE {drag_new_tab_restore_timer}

\* A poll fire has rescheduled itself: the timer it created is the only one.
C2_Witness ==
  /\ last.ev = "poll" /\ last.out = "retry"
  /\ Cardinality(poll_timers) = 1

\* The fire that ended a session in mode 2.
PollDoneInRestoreMode ==
  last.ev = "poll" /\ last.out = "done" /\ drag_new_tab_state.mode = 2

\* C6 as stated: in mode 2, right after the fire that ends the session the
\* tab selected in the host is the new tab.
C6_NewTabSelectedAfterDone ==
  PollDoneInRestoreMode => host.sel = last.new_tab

\* C6: in mode 2, right after a session-ending fire that confirmed the new
\* tab selected, the tab selected in the host is the new tab or the restore
\* target the same fire selected, and the new tab if no target was selected.
C6_NewTabOrRestoreTargetAfterDone ==
  PollDoneInRestoreMode /\ last.selected =>
    /\ host.sel \in {last.new_tab, last.target} \ {NoTab}
    /\ last.target = NoTab => host.sel = last.new_tab

\* The fire selected the restore target and the host shows it, not the new tab.
C6_Witness ==
  /\ PollDoneInRestoreMode /\ last.selected
  /\ last.target # NoTab /\ last.target # last.new_tab
  /\ host.sel = last.target

\* C8: a press leaves armed false, pending false, check_attempts 0, the
\* snapshot empty and no poll timer outstanding, whatever the state before.
C8_PressCancelsSession ==
  last.ev = "down" =>
    /\ ~drag_new_tab_state.armed
    /\ ~drag_new_tab_state.pending
    /\ drag_new_tab_state.check_attempts = 0
    /\ drag_new_tab_state.start_tabs = <<>>
    /\ poll_timers = {}
    /\ drag_new_tab_timer = 0

\* A press arrived while a check was pending and the pointer was armed.
C8_Witness ==
  last.ev = "down" /\ last.was_pending /\ last.was_armed

\* C9: a press during an active session resets every session field and
\* cancels both timers and the restore ticket.
C9_PressResetsEverything ==
  last.ev = "down" /\ (last.was_armed \/ last.was_pending) =>
    /\ drag_new_tab_state = DragNewTabState
    /\ poll_timers = {} /\ drag_new_tab_timer = 0
    /\ restore_timers = {} /\ drag_new_tab_restore_timer = 0
    /\ drag_new_tab_restore_tab = NoTab
    /\ drag_new_tab_restore_attempts = 0

----------------------------------------------------------------------------
(* One poll fire on a queued check, over every snapshot and every answer   *)
(* of the probe: the functions the fire applies, as it applies them.       *)

FireTabs == 1..FireNumTabs

FireLists == ListsOver(FireTabs, FireMaxTabs)

FireViews == ViewsOver(FireLists, FireTabs)

FreshGlobals ==
  [s |-> DragNewTabState, timer |-> 0, rtimer |-> 0, rtab |-> NoTab, ratt |-> 0,
   polls |-> {}, restores |-> {}]

\* The state a drop on the tab strip of window 1 leaves: a press, a release
\* further than the drag threshold, the check queued on the snapshot.
InitQueued ==
  /\ config_mode \in {1, 2}
  /\ lbutton_down_point = NoPoint
  /\ \E tabs \in FireLists \ {<<>>}, sel \in FireTabs :
       LET view == [tabs |-> tabs, sel |-> sel]
           q == QueueDragNewTabCheck(FreshGlobals, 1, TRUE, Pt(0, 2), view)
       IN /\ sel \in Range(tabs)
          /\ drag_new_tab_state = q.m.s
          /\ drag_new_tab_timer = q.m.timer
          /\ poll_timers = q.m.polls
  /\ drag_new_tab_restore_timer = 0
  /\ drag_new_tab_restore_tab = NoTab
  /\ drag_new_tab_restore_attempts = 0
  /\ restore_timers = {}
  /\ cmds = <<>>
  /\ host = NoView
  /\ last = [NoLast EXCEPT !.ev = "up", !.out = "queued", !.pressed = TRUE,
                           !.dist = Pt(0, 2), !.drag = TRUE, !.pt = Pt(0, 2),
                           !.on_strip = TRUE]
  /\ fn = NoFn

\* The first fire of the poll timer; fn keeps what the probe answered and
\* what the fire's functions returned on it.
FirstPollFire ==
  /\ fn = NoFn
  /\ \E timer_id \in poll_timers, view \in FireViews :
     \E out \in (IF PollNewTab(Globals, view) \in {NoTab, view.sel}
                 THEN {"ok"} ELSE SelectOutcomes),
        out2 \in (IF PollNewTab(Globals, view) = NoTab \/ drag_new_tab_state.mode # 2
                  THEN {"ok"} ELSE {"lag", "ok"}) :
       /\ OnPollTimer(timer_id, TRUE, view, out, TRUE, out2, FALSE)
       /\ fn' = [op |-> "poll",
                 start_tabs |-> drag_new_tab_state.start_tabs,
                 tabs |-> view.tabs,
                 sel |-> view.sel,
                 found |-> FindNewTabAfterDrag(Globals, view.tabs),
                 new_tab |-> PollNewTab(Globals, view),
                 steps |-> GetMoveStepsToEnd(view.tabs, PollNewTab(Globals, view)),
                 now_selected |-> IF PollNewTab(Globals, view) \in {NoTab, view.sel}
                                  THEN view.sel
                                  ELSE HostSelect(view, PollNewTab(Globals, view), out).sel]

SpecFire == InitQueued /\ [][FirstPollFire]_vars

\* L is S with the one identity t, not in S, inserted at some position.
IsInsertion(S, L, t) ==
  /\ t \notin Range(S)
  /\ Len(L) = Len(S) + 1
  /\ \E i \in 1..Len(L) :
       /\ L[i] = t
       /\ \A k \in 1..Len(S) : S[k] = L[IF k < i THEN k ELSE k + 1]

\* C3: for a non-empty snapshot S and a current list that is S with exactly
\* one identity not in S inserted at any position, FindNewTabAfterDrag
\* returns that identity.
C3_FindsInsertedTab ==
  fn.op = "poll" =>
    \A t \in FireTabs :
      fn.start_tabs # <<>> /\ IsInsertion(fn.start_tabs, fn.tabs, t) => fn.found = t

\* The new identity was inserted before tabs of the snapshot, and found.
C3_Witness ==
  /\ fn.op = "poll"
  /\ Len(fn.start_tabs) >= 2 /\ Len(fn.tabs) > Len(fn.start_tabs)
  /\ IsInsertion(fn.start_tabs, fn.tabs, fn.tabs[1])
  /\ fn.found = fn.tabs[1]

IsMove(c) == c.cmd = "move_next"

\* C5: for a new tab at index i of the list, GetMoveStepsToEnd returns
\* (|L| - 1) - i, and when that is 0 the fire issues no move command.
C5_StepsToEndAndNoMoveAtEnd ==
  fn.op = "poll" /\ fn.new_tab # NoTab =>
    /\ \A i \in 1..Len(fn.tabs) :
         fn.tabs[i] = fn.new_tab => fn.steps = (Len(fn.tabs) - 1) - (i - 1)
    /\ fn.steps = 0 => \A k \in 1..Len(cmds) : ~IsMove(cmds[k])

\* The new tab is the last of a list of several: no steps, no move, and the
\* fire went on to end the session.
C5_Witness ==
  /\ fn.op = "poll"
  /\ Len(fn.tabs) >= 2 /\ fn.new_tab = fn.tabs[Len(fn.tabs)]
  /\ fn.steps = 0
  /\ last.out = "done" /\ cmds # <<>>

----------------------------------------------------------------------------
(* The retry loop: the dragged tab never shows up.  Every snapshot holds   *)
(* all the tab identities there are, so no poll fire sees an identity that *)
(* is not in the snapshot; the container is found at every fire.  No       *)
(* restore timer is ever created, so none fires.                           *)

AllTabsLists == {t \in TabLists : Len(t) = NumTabs}

SnapshotViews == ViewsOver(AllTabsLists, Tabs)

NextRetry ==
  \/ LButtonDown(PressPoints, FALSE)
  \/ MouseMove(Windows, SnapshotViews, FALSE)
  \/ LButtonUp(ReleasePoints, Windows, SnapshotViews, FALSE)
  \/ PollTimerFire({TRUE}, Views, SelectOutcomes, FALSE)

SpecRetry == Init /\ [][NextRetry]_vars

\* A poll fire on a pending check with attempts left reschedules: one
\* attempt is consumed, the check stays pending on the same snapshot, one
\* poll timer is outstanding and no command is issued.
RetryReschedules ==
  (/\ last'.ev = "poll"
   /\ drag_new_tab_state.pending
   /\ drag_new_tab_state.check_attempts > 0)
  => /\ last'.out = "retry" /\ last'.new_tab = NoTab
     /\ drag_new_tab_state'.pending
     /\ drag_new_tab_state'.check_attempts = drag_new_tab_state.check_attempts - 1
     /\ drag_new_tab_state'.start_tabs = drag_new_tab_state.start_tabs
     /\ Cardinality(poll_timers') = 1
     /\ cmds' = <<>>

\* A poll fire on a pending check with no attempt left resets the session.
RetryGivesUp ==
  (/\ last'.ev = "poll"
   /\ drag_new_tab_state.pending
   /\ drag_new_tab_state.check_attempts <= 0)
  => /\ last'.out = "exhausted"
     /\ ~drag_new_tab_state'.pending
     /\ drag_new_tab_state'.start_tabs = <<>>
     /\ poll_timers' = {} /\ drag_new_tab_timer' = 0
     /\ cmds' = <<>>

\* C4: while no identity absent from the snapshot shows up, every poll fire
\* reschedules exactly one further poll, consuming one of the 12 attempts,
\* and the fire that finds none left resets the session (pending false,
\* snapshot empty, no poll timer); the attempts never leave 0..12.
C4_RetryUntilBudgetThenReset ==
  /\ [](drag_new_tab_state.check_attempts \in 0..kDragNewTabMaxAttempts)
  /\ [](restore_timers = {})
  /\ [][RetryReschedules /\ RetryGivesUp]_vars

\* The fire after the twelfth retry: the budget is consumed, the session reset.
C4_Witness ==
  /\ last.ev = "poll" /\ last.out = "exhausted"
  /\ ~drag_new_tab_state.pending
  /\ poll_timers = {}

----------------------------------------------------------------------------
(* Gestures: presses on and left of the primary monitor's origin, releases *)
(* at, within, at exactly and beyond the drag threshold, over one window.  *)

DragPressPoints == {Pt(0, 0), Pt(-2, 0)}

DragReleasePoints == {Pt(0, 0), Pt(1, 1), Pt(0, 2), Pt(-2, 2)}

OneWindow == {1}

NextDrag ==
  \/ LButtonDown(DragPressPoints, FALSE)
  \/ MouseMove(OneWindow, Views, FALSE)
  \/ LButtonUp(DragReleasePoints, OneWindow, Views, FALSE)
  \/ PollTimerFire(BOOLEAN, Views, SelectOutcomes, FALSE)
  \/ RestoreTimerFire(Views, {"lag", "ok"}, FALSE)

SpecDrag == Init /\ [][NextDrag]_vars

\* A release after a press, with no arming move since and the pointer not
\* further from the press than the drag threshold in either axis.
ReleasedWithoutDrag ==
  /\ last.ev = "up" /\ last.pressed /\ ~last.was_armed
  /\ last.dist.x <= dragThresholdX /\ last.dist.y <= dragThresholdY

\* C10: such a release queues no check, wherever it lands: pending is
\* false, no poll timer exists and no snapshot is held.
C10_NoDragNoCheck ==
  ReleasedWithoutDrag =>
    /\ last.out = "click"
    /\ ~drag_new_tab_state.pending
    /\ poll_timers = {} /\ drag_new_tab_timer = 0
    /\ drag_new_tab_state.start_tabs = <<>>

\* The release came at exactly the threshold in both axes.
C10_Witness ==
  /\ ReleasedWithoutDrag
  /\ last.dist = Pt(dragThresholdX, dragThresholdY)

----------------------------------------------------------------------------
(* Restore verification against one browser window whose tab strip lives   *)
(* on between the handlers: the probe reads it, select and move commands   *)
(* are applied to it at once, and the browser or the user may change it at *)
(* any time.  Mode 2; no pointer event arrives while a restore timer is    *)
(* outstanding.                                                            *)

InitHost ==
  /\ config_mode = 2
  /\ host \in {Seen(v) : v \in Views}
  /\ InitGlobals

\* The browser changes its tab strip: tabs open, close, move, get selected.
HostChange(V) ==
  /\ host' \in {Seen(v) : v \in V} \ {host}
  /\ cmds' = <<>>
  /\ last' = [NoLast EXCEPT !.ev = "host"]
  /\ UNCHANGED <<config_mode, lbutton_down_point, drag_new_tab_state,
                 drag_new_tab_timer, drag_new_tab_restore_timer,
                 drag_new_tab_restore_tab, drag_new_tab_restore_attempts,
                 poll_timers, restore_timers, fn>>

NextHost ==
  \/ restore_timers = {} /\ LButtonDown(PressPoints, TRUE)
  \/ restore_timers = {} /\ MouseMove(OneWindow, {HostView}, TRUE)
  \/ restore_timers = {} /\ LButtonUp(ReleasePoints, OneWindow, {HostView}, TRUE)
  \/ PollTimerFire(BOOLEAN, {HostView}, {"ok"}, TRUE)
  \/ RestoreTimerFire({HostView}, {"ok"}, TRUE)
  \/ HostChange(Views)

SpecHost == InitHost /\ [][NextHost]_vars

\* The tab with the start-selected identity if the list has it, otherwise
\* the tab at the start-selected index, otherwise none.
RestoreTarget(tabs) ==
  LET id == drag_new_tab_state.start_selected_tab
      index == drag_new_tab_state.start_selected_index
  IN IF id # NoTab /\ id \in Range(tabs) THEN id
     ELSE IF index >= 0 /\ index < Len(tabs) THEN tabs[index + 1]
     ELSE NoTab

----------------------------------------------------------------------------
(* Releases under SpecDrag.                                                *)

\* A release after a press, on the tab strip and not on the new-tab button,
\* with the feature enabled and the pointer further from the press than the
\* drag threshold in x or in y.
ReleasedAfterDrag ==
  /\ last.ev = "up" /\ last.pressed /\ last.on_strip
  /\ IsDragNewTabEnabled
  /\ (last.dist.x > dragThresholdX \/ last.dist.y > dragThresholdY)

\* C11: such a release reaches QueueDragNewTabCheck whatever the press point
\* was, negative screen coordinates included, armed or not.
C11_DragQueuesCheck ==
  ReleasedAfterDrag => last.out \in {"queued", "aborted"}

----------------------------------------------------------------------------
(* Whole fires under SpecFire.                                             *)

\* The fire found a tab absent from the snapshot, shown by the current list
\* and selected.
FoundNewTabSelected ==
  /\ fn.op = "poll"
  /\ fn.new_tab # NoTab
  /\ fn.new_tab \notin Range(fn.start_tabs)
  /\ fn.new_tab \in Range(fn.tabs)
  /\ fn.sel = fn.new_tab

\* C12: in mode 1, a fire that finds the new tab last in the list and
\* selected ends the session issuing no command, and leaves no poll timer
\* and no restore timer.
C12_NothingToDoEndsSession ==
  (/\ FoundNewTabSelected
   /\ drag_new_tab_state.mode = 1
   /\ fn.new_tab = fn.tabs[Len(fn.tabs)])
  => /\ last.out = "done"
     /\ cmds = <<>>
     /\ ~drag_new_tab_state.pending
     /\ poll_timers = {} /\ drag_new_tab_timer = 0
     /\ restore_timers = {} /\ drag_new_tab_restore_timer = 0

\* Snapshot [1, 2, 3] with 2 selected, current list [1, 3, 4] with 4 selected.
C12_Witness ==
  /\ FoundNewTabSelected
  /\ drag_new_tab_state.mode = 1
  /\ fn.start_tabs = <<1, 2, 3>> /\ drag_new_tab_state.start_selected_tab = 2
  /\ fn.tabs = <<1, 3, 4>> /\ fn.sel = 4
  /\ last.out = "done" /\ cmds = <<>>

\* The list with tab t taken out and put last.
MovedToEnd(tabs, t) ==
  SelectSeq(tabs, LAMBDA x : x # t) \o <<t>>

\* C13: in mode 2, a fire that finds the new tab selected at index i while
\* the start-selected identity is gone issues no select for the new tab,
\* (last index - i) moves, and then a select of the tab at the start-selected
\* index of the list as it is after the moves.
C13_MoveThenRestoreByIndex ==
  (/\ FoundNewTabSelected
   /\ drag_new_tab_state.mode = 2
   /\ drag_new_tab_state.start_selected_tab \notin Range(fn.tabs))
  => LET after == MovedToEnd(fn.tabs, fn.new_tab)
         index == drag_new_tab_state.start_selected_index
         moves == [k \in 1..fn.steps |-> MoveCmd(drag_new_tab_state.hwnd)]
     IN /\ \A i \in 1..Len(fn.tabs) :
             fn.tabs[i] = fn.new_tab => fn.steps = Len(fn.tabs) - i
        /\ host.tabs = after
        /\ index >= 0
        /\ cmds = IF index < Len(after)
                  THEN moves \o <<SelectCmd(after[index + 1])>>
                  ELSE moves

\* Snapshot [1, 2, 3] with 2 selected at index 1, current list [4, 1, 3] with
\* 4 selected: two moves give [1, 3, 4], then tab 3 is selected.
C13_Witness ==
  /\ FoundNewTabSelected
  /\ drag_new_tab_state.mode = 2
  /\ fn.start_tabs = <<1, 2, 3>> /\ drag_new_tab_state.start_selected_tab = 2
  /\ fn.tabs = <<4, 1, 3>> /\ fn.sel = 4
  /\ cmds = <<MoveCmd(1), MoveCmd(1), SelectCmd(3)>>
  /\ host.tabs = <<1, 3, 4>> /\ host.sel = 3

----------------------------------------------------------------------------
(* A queued check left to its timers: no pointer event arrives.  A timer   *)
(* that is set and not killed is delivered, so the poll fire is weakly     *)
(* fair.  fn counts the poll fires and those that go as far as asking the  *)
(* host (GetTopContainerView, line 403).                                   *)

MaxFires == 14

InitLive ==
  /\ config_mode \in {1, 2}
  /\ lbutton_down_point = NoPoint
  /\ \E view \in Views :
       LET q == QueueDragNewTabCheck(FreshGlobals, 1, TRUE, Pt(0, 2), view)
       IN /\ view.tabs # <<>>
          /\ drag_new_tab_state = q.m.s
          /\ drag_new_tab_timer = q.m.timer
          /\ poll_timers = q.m.polls
  /\ drag_new_tab_restore_timer = 0
  /\ drag_new_tab_restore_tab = NoTab
  /\ drag_new_tab_restore_attempts = 0
  /\ restore_timers = {}
  /\ cmds = <<>>
  /\ host = NoView
  /\ last = [NoLast EXCEPT !.ev = "up", !.out = "queued", !.pressed = TRUE,
                           !.dist = Pt(0, 2), !.drag = TRUE, !.pt = Pt(0, 2),
                           !.on_strip = TRUE]
  /\ fn = [op |-> "live", fires |-> 0, queries |-> 0]

LivePollFire ==
  /\ fn.fires < MaxFires
  /\ fn' = [fn EXCEPT !.fires = @ + 1,
                      !.queries = IF PollReturnsEarly THEN @ ELSE @ + 1]
  /\ PollTimerFires(BOOLEAN, Views, SelectOutcomes, FALSE)

NextLive ==
  \/ LivePollFire
  \/ RestoreTimerFire(Views, SelectOutcomes, FALSE)
  \/ ConfigChange(FALSE)

SpecLive == InitLive /\ [][NextLive]_vars /\ WF_vars(LivePollFire)

\* C14: without pointer events a queued session ends, whatever the probe
\* and the host answer: from some point on it is not pending and no poll
\* timer is outstanding, and by then the poll timer has fired at most 13
\* times, at most 12 of them asking the host.
C14_SessionEndsWithinBudget ==
  /\ [](fn.fires <= kDragNewTabMaxAttempts + 1 /\ fn.queries <= kDragNewTabMaxAttempts)
  /\ <>[](~drag_new_tab_state.pending /\ poll_timers = {})

\* The host never shows a new tab: 12 fires ask it, the 13th gives up.
C14_Witness ==
  /\ fn.op = "live"
  /\ fn.fires = kDragNewTabMaxAttempts + 1 /\ fn.queries = kDragNewTabMaxAttempts
  /\ last.ev = "poll" /\ last.out = "exhausted"
  /\ ~drag_new_tab_state.pending /\ poll_timers = {}

\* C15: a poll fire of a pending session that finds the configured mode Off
\* resets the session, issues no command and sets no poll timer.
C15_OffAbandonsAtNextFire ==
  (last.ev = "poll" /\ last.out # "idle" /\ config_mode = 0)
  => /\ ~drag_new_tab_state.pending
     /\ cmds = <<>>
     /\ poll_timers = {}

\* C16: a poll fire that cannot resolve the container of the bound window
\* resets every session field, leaves no restore timer and no restore
\* ticket, issues no command and sets no poll timer.
C16_NoContainerAbandons ==
  (last.ev = "poll" /\ last.out = "no_container")
  => /\ drag_new_tab_state = DragNewTabState
     /\ restore_timers = {} /\ drag_new_tab_restore_timer = 0
     /\ drag_new_tab_restore_tab = NoTab
     /\ drag_new_tab_restore_attempts = 0
     /\ cmds = <<>>
     /\ poll_timers = {} /\ drag_new_tab_timer = 0

\* The container is gone at the first fire, with 11 attempts left.
C16_Witness ==
  /\ fn.op = "live" /\ fn.fires = 1 /\ fn.queries = 1
  /\ last.ev = "poll" /\ last.out = "no_container"
  /\ ~drag_new_tab_state.pending

\* C17: a restore fire that cannot resolve the container of the bound
\* window leaves no restore timer and no restore ticket.
C17_RestoreCancelsWithoutContainer ==
  (last.ev = "restore" /\ last.out = "no_container")
  => /\ restore_timers = {} /\ drag_new_tab_restore_timer = 0
     /\ drag_new_tab_restore_tab = NoTab

\* C18: a restore ticket is held only while the session mode is 2 and a
\* restore timer is outstanding.
C18_TicketOnlyInRestoreMode ==
  drag_new_tab_restore_tab # NoTab
  => /\ drag_new_tab_state.mode = 2
     /\ drag_new_tab_restore_timer # 0
     /\ restore_timers # {}

\* C19: a release that queues a check leaves no restore timer, no restore
\* ticket and a restore counter of 0, the drop point at the release point,
\* the session pending with 12 attempts, and one poll timer, the one
\* drag_new_tab_timer names.
C19_QueuedState ==
  (last.ev = "up" /\ last.out = "queued")
  => /\ restore_timers = {} /\ drag_new_tab_restore_timer = 0
     /\ drag_new_tab_restore_tab = NoTab
     /\ drag_new_tab_restore_attempts = 0
     /\ drag_new_tab_state.drop_point = last.pt
     /\ drag_new_tab_state.pending
     /\ drag_new_tab_state.check_attempts = kDragNewTabMaxAttempts
     /\ poll_timers = {drag_new_tab_timer}
     /\ drag_new_tab_timer # 0

\* A check queued while the poll timer of an earlier check was outstanding.
C19_Witness ==
  /\ last.ev = "up" /\ last.out = "queued" /\ last.had_poll
  /\ drag_new_tab_state.pending
  /\ Cardinality(poll_timers) = 1

\* C20: a drop that has to take a snapshot and finds the container without
\* tabs does not set pending, does not set the attempts to 12 and creates no
\* poll timer.
C20_EmptyContainerAborts ==
  [][(/\ last'.ev = "up" /\ last'.out \in {"queued", "aborted"}
      /\ drag_new_tab_state'.start_tabs = <<>>)
     => /\ last'.out = "aborted"
        /\ drag_new_tab_state'.pending = drag_new_tab_state.pending
        /\ drag_new_tab_state'.check_attempts = drag_new_tab_state.check_attempts
        /\ poll_timers' = poll_timers
        /\ drag_new_tab_timer' = drag_new_tab_timer]_vars

\* A drop aborted on a container that is there and has no tabs.
C20_Witness ==
  /\ last.ev = "up" /\ last.out = "aborted" /\ last.on_strip
  /\ drag_new_tab_state.hwnd # NoWnd
  /\ drag_new_tab_state.start_tabs = <<>>
  /\ drag_new_tab_state.start_tab_count = 0
  /\ ~drag_new_tab_state.pending /\ poll_timers = {}

----------------------------------------------------------------------------
(* Fires that find a new tab and cannot make it the selected tab, under    *)
(* SpecFire.                                                               *)

\* The fire found a new tab and ensure_selected returned false for it.
NewTabNotSelected ==
  /\ fn.op = "poll"
  /\ fn.new_tab # NoTab
  /\ last.new_tab = fn.new_tab
  /\ ~last.selected

\* C21: in mode 2, a fire that finds a new tab and cannot make it the
\* selected tab sets the poll timer again, leaves the session pending and
\* selects no restore target, whatever the number of move steps.
C21_RestoreModeRetriesUnselected ==
  (NewTabNotSelected /\ drag_new_tab_state.mode = 2)
  => /\ last.out = "retry"
     /\ drag_new_tab_state.pending
     /\ poll_timers # {}
     /\ last.target = NoTab
     /\ restore_timers = {}

\* C22: in mode 1, a fire that finds a new tab which needs no move and
\* cannot make it the selected tab issues a second select command for it and
\* ends the session, setting no poll timer.
C22_MoveModeFallbackSelect ==
  (NewTabNotSelected /\ drag_new_tab_state.mode = 1 /\ fn.steps = 0)
  => /\ last.out = "done"
     /\ cmds = <<SelectCmd(fn.new_tab), SelectCmd(fn.new_tab)>>
     /\ ~drag_new_tab_state.pending
     /\ poll_timers = {}

\* The move commands of the fire, in the order issued.
MovesIssued == SelectSeq(cmds, IsMove)

\* The new tab was the selected tab when the fire asked, or is the selected
\* tab the probe shows after the fire's select command.
NewTabConfirmedSelected ==
  /\ fn.new_tab # NoTab
  /\ fn.now_selected = fn.new_tab

\* C23: a fire issues move commands only when the new tab was confirmed
\* selected in it; it then issues as many as GetMoveStepsToEnd returned, for
\* the bound window, after the select of the new tab and before the list is
\* read again and the restore target selected.
C23_MovesOnlyConfirmedTab ==
  fn.op = "poll" =>
    /\ MovesIssued # <<>> => NewTabConfirmedSelected
    /\ NewTabConfirmedSelected =>
         /\ MovesIssued = [k \in 1..fn.steps |-> MoveCmd(drag_new_tab_state.hwnd)]
         /\ \E pre \in {<<>>, <<SelectCmd(fn.new_tab)>>},
               post \in {<<>>, <<SelectCmd(last.target)>>} :
              cmds = pre \o MovesIssued \o post
         /\ fn.new_tab \in Range(fn.tabs) => host.tabs = MovedToEnd(fn.tabs, fn.new_tab)

\* The new tab, two places from the end, is selected by the fire and moved
\* twice.
C23_Witness ==
  /\ fn.op = "poll"
  /\ fn.sel # fn.new_tab /\ NewTabConfirmedSelected
  /\ fn.steps = 2
  /\ cmds[1] = SelectCmd(fn.new_tab)
  /\ Len(MovesIssued) = 2
  /\ host.tabs[Len(host.tabs)] = fn.new_tab

----------------------------------------------------------------------------
(* One restore fire over every snapshot binding and every list: a restore  *)
(* is outstanding and the snapshot fields are those InitDragNewTabState    *)
(* wrote, on a first binding or on a later one by a pointer move.  The     *)
(* fire applies ResolveRestoreTab to the list the probe shows.             *)

InitResolve ==
  /\ config_mode \in {1, 2}
  /\ lbutton_down_point = NoPoint
  /\ \E view \in FireViews :
       LET bound == InitDragNewTabState(FreshGlobals, 1, TRUE, view).m
           m == QueueDragNewTabRestore(bound, view.tabs[1])
       IN /\ view.tabs # <<>>
          /\ drag_new_tab_state = m.s
          /\ drag_new_tab_restore_timer = m.rtimer
          /\ drag_new_tab_restore_tab = m.rtab
          /\ drag_new_tab_restore_attempts = m.ratt
          /\ restore_timers = m.restores
  /\ drag_new_tab_timer = 0
  /\ poll_timers = {}
  /\ cmds = <<>>
  /\ host = NoView
  /\ last = [NoLast EXCEPT !.ev = "move", !.out = "armed"]
  /\ fn = NoFn

FirstRestoreFire ==
  /\ fn = NoFn
  /\ \E timer_id \in restore_timers, view \in FireViews :
       /\ TimerProcReturns("restore",
                           DragNewTabRestoreTimerProc(Globals, timer_id, TRUE, view, "ok"),
                           FALSE)
       /\ fn' = [op |-> "restore", tabs |-> view.tabs, sel |-> view.sel]

SpecResolve == InitResolve /\ [][FirstRestoreFire]_vars

\* C24: on a list L, ResolveRestoreTab returns the start-selected identity
\* when L holds it, else the tab at the start-selected index of L, and none
\* when L does not hold the identity and the index is -1 or beyond L.
C24_ResolveRestoreTab ==
  fn.op = "restore" =>
    LET L == fn.tabs
        identity == drag_new_tab_state.start_selected_tab
        index == drag_new_tab_state.start_selected_index
    IN IF identity # NoTab /\ identity \in Range(L)
       THEN last.target = identity
       ELSE IF index >= 0 /\ index < Len(L)
       THEN last.target = L[index + 1]
       ELSE last.target = NoTab /\ last.out = "no_target"

\* The identity is gone from the list; the tab at its index is the target.
C24_Witness ==
  /\ fn.op = "restore"
  /\ drag_new_tab_state.start_selected_tab # NoTab
  /\ drag_new_tab_state.start_selected_tab \notin Range(fn.tabs)
  /\ drag_new_tab_state.start_selected_index = 1
  /\ Len(fn.tabs) = 3
  /\ last.out = "verified" /\ last.target = fn.tabs[2]

----------------------------------------------------------------------------
(* The terminal action of mode 2, under SpecFire.                          *)

\* The restore target line 456 resolves, on the list as the fire read it
\* last.
TerminalRestoreTarget == ResolveRestoreTab(Globals, host.tabs)

\* C25: in mode 2, a fire that reaches the terminal action ends the session
\* whatever becomes of the restore select and whether or not there is a
\* restore target; a restore timer is outstanding afterwards exactly when
\* there is a target and no tab was selected, or another tab than the
\* target was, or the new tab was made the selection.
C25_TerminalActionEndsSession ==
  (fn.op = "poll" /\ last.out = "done" /\ drag_new_tab_state.mode = 2)
  => /\ ~drag_new_tab_state.pending
     /\ drag_new_tab_state.check_attempts = 0
     /\ drag_new_tab_state.start_tabs = <<>>
     /\ ~drag_new_tab_state.armed
     /\ poll_timers = {} /\ drag_new_tab_timer = 0
     /\ (restore_timers # {}
         <=> /\ TerminalRestoreTarget # NoTab
             /\ \/ fn.sel = NoTab
                \/ fn.sel # TerminalRestoreTarget
                \/ last.selected)
     /\ restore_timers # {}
        => /\ restore_timers = {drag_new_tab_restore_timer}
           /\ drag_new_tab_restore_tab = TerminalRestoreTarget
           /\ drag_new_tab_restore_attempts = kDragNewTabRestoreAttempts

\* The session ended although the restore select did not take effect.
C25_Witness ==
  /\ fn.op = "poll" /\ last.out = "done" /\ drag_new_tab_state.mode = 2
  /\ last.target # NoTab /\ host.sel # last.target
  /\ ~drag_new_tab_state.pending /\ poll_timers = {}
  /\ restore_timers # {}

----------------------------------------------------------------------------
(* A queued restore left to its timer: no pointer event arrives.  The      *)
(* restore timer is periodic and, while not killed, is delivered, so its   *)
(* fire is weakly fair.  fn counts the fires, those that use up an attempt *)
(* (line 342) and the select commands, and keeps the selection the last    *)
(* fire was shown.                                                         *)

MaxRestoreFires == 6

InitRestore ==
  /\ config_mode \in {1, 2}
  /\ lbutton_down_point = NoPoint
  /\ \E view \in Views :
       LET bound == InitDragNewTabState(FreshGlobals, 1, TRUE, view).m
           m == QueueDragNewTabRestore(EndSession(bound), view.tabs[1])
       IN /\ view.tabs # <<>>
          /\ drag_new_tab_state = m.s
          /\ drag_new_tab_restore_timer = m.rtimer
          /\ drag_new_tab_restore_tab = m.rtab
          /\ drag_new_tab_restore_attempts = m.ratt
          /\ restore_timers = m.restores
  /\ drag_new_tab_timer = 0
  /\ poll_timers = {}
  /\ cmds = <<>>
  /\ host = NoView
  /\ last = [NoLast EXCEPT !.ev = "poll", !.out = "done"]
  /\ fn = [op |-> "verify", fires |-> 0, attempts |-> 0, selects |-> 0, sel |-> NoTab]

LiveRestoreFire ==
  /\ fn.fires < MaxRestoreFires
  /\ \E timer_id \in restore_timers :
       \E tcv \in (IF RestoreReturnsEarly THEN {FALSE} ELSE BOOLEAN) :
         \E view \in (IF tcv THEN Views ELSE {AnyView}),
            out \in (IF tcv THEN {"lag", "ok"} ELSE {"ok"}) :
           /\ TimerProcReturns("restore",
                               DragNewTabRestoreTimerProc(Globals, timer_id, tcv, view, out),
                               FALSE)
           /\ fn' = [fn EXCEPT !.fires = @ + 1,
                               !.attempts = IF drag_new_tab_restore_attempts > 0
                                            THEN @ + 1 ELSE @,
                               !.selects = @ + Len(cmds'),
                               !.sel = view.sel]

NextRestore ==
  \/ LiveRestoreFire
  \/ ConfigChange(FALSE)

SpecRestore == InitRestore /\ [][NextRestore]_vars /\ WF_vars(LiveRestoreFire)

\* C26: for one queued restore the restore timer uses at most 4 attempts
\* and issues at most 4 select commands; a fire issues a select, of the
\* target it resolved, only when no tab is selected or another tab than the
\* target is; and whatever the probe answers the timer ends cancelled with
\* the ticket cleared, after at most 5 fires.
C26_RestoreVerificationBounded ==
  /\ [](/\ fn.attempts <= kDragNewTabRestoreAttempts
        /\ fn.selects <= kDragNewTabRestoreAttempts
        /\ fn.fires <= kDragNewTabRestoreAttempts + 1)
  /\ []((last.ev = "restore" /\ cmds # <<>>)
        => /\ cmds = <<SelectCmd(last.target)>>
           /\ fn.sel = NoTab \/ fn.sel # last.target)
  /\ <>[](/\ restore_timers = {}
          /\ drag_new_tab_restore_timer = 0
          /\ drag_new_tab_restore_tab = NoTab)

\* Four selects, the last fire without a container: the fifth fire cancels.
C26_Witness ==
  /\ fn.op = "verify"
  /\ fn.fires = kDragNewTabRestoreAttempts + 1
  /\ fn.attempts = kDragNewTabRestoreAttempts
  /\ last.ev = "restore" /\ last.out = "expired"
  /\ restore_timers = {} /\ drag_new_tab_restore_tab = NoTab

----------------------------------------------------------------------------
(* Restore fires among pointer events, under Spec.                         *)

\* C27: a select command issued by a restore fire targets the tab the
\* restore ticket held when the fire began, which is the tab recorded when
\* the restore was queued.
C27_RestoreSelectsTicket ==
  [][(last'.ev = "restore" /\ cmds' # <<>>)
     => cmds' = <<SelectCmd(drag_new_tab_restore_tab)>>]_vars

\* C28: a restore fire leaves pending, check_attempts, start_tabs, armed
\* and drag_new_tab_timer as they were and creates no poll timer.
C28_RestoreFireLeavesPollCycle ==
  [][last'.ev = "restore"
     => /\ drag_new_tab_state'.pending = drag_new_tab_state.pending
        /\ drag_new_tab_state'.check_attempts = drag_new_tab_state.check_attempts
        /\ drag_new_tab_state'.start_tabs = drag_new_tab_state.start_tabs
        /\ drag_new_tab_state'.armed = drag_new_tab_state.armed
        /\ drag_new_tab_timer' = drag_new_tab_timer
        /\ poll_timers' = poll_timers]_vars

\* A restore fire on a session a pointer move has armed and bound again.
C28_Witness ==
  /\ last.ev = "restore" /\ last.out \in {"verified", "no_target"}
  /\ drag_new_tab_state.armed
  /\ drag_new_tab_state.start_tabs # <<>>
  /\ poll_timers = {}

----------------------------------------------------------------------------
(* A pointer move with every combination of button, window, container and *)
(* tab bar, in every state the other events lead to.  fn keeps what the    *)
(* move met.                                                               *)

\* A move; hwnd and view matter only over a tab bar.
ArmMove ==
  \E pressed, tcv, on_bar \in BOOLEAN :
    \E hwnd \in (IF tcv /\ on_bar THEN Windows ELSE {Min(Windows)}) :
      \E view \in (IF MoveArms(pressed, tcv, on_bar) /\ MoveRebinds(Globals, hwnd)
                   THEN Views ELSE {AnyView}) :
        /\ OnMouseMove(pressed, hwnd, tcv, on_bar, view, FALSE)
        /\ fn' = [op |-> "move", pressed |-> pressed, on_bar |-> tcv /\ on_bar,
                  hwnd |-> hwnd, view |-> view]

NextArm ==
  \/ fn = NoFn /\ LButtonDown(PressPoints, FALSE)
  \/ fn = NoFn /\ MouseMove(Windows, Views, FALSE)
  \/ fn = NoFn /\ LButtonUp(ReleasePoints, Windows, Views, FALSE)
  \/ fn = NoFn /\ PollTimerFire({TRUE}, Views, {"ok"}, FALSE)
  \/ fn = NoFn /\ RestoreTimerFire(Views, {"ok"}, FALSE)
  \/ fn = NoFn /\ ConfigChange(FALSE)
  \/ fn = NoFn /\ ArmMove

SpecArm == Init /\ [][NextArm]_vars


\* C29: a move with the button held, the feature enabled and the pointer
\* over a tab bar sets armed, and takes a snapshot of what the probe shows
\* when the snapshot is empty or bound to another window, else leaves the
\* snapshot as it is; any other move changes nothing; no move issues a
\* command, sets a timer or kills one.
C29_MoveArmsAndBinds ==
  [][(fn.op = "none" /\ fn'.op = "move")
     => LET before == drag_new_tab_state
            after == drag_new_tab_state'
            arming == fn'.pressed /\ IsDragNewTabEnabled /\ fn'.on_bar
            unbound == before.start_tabs = <<>> \/ before.hwnd # fn'.hwnd
        IN /\ cmds' = <<>>
           /\ UNCHANGED <<poll_timers, restore_timers, drag_new_tab_timer,
                          drag_new_tab_restore_timer, drag_new_tab_restore_tab,
                          drag_new_tab_restore_attempts, lbutton_down_point>>
           /\ after.pending = before.pending
           /\ after.check_attempts = before.check_attempts
           /\ after.drop_point = before.drop_point
           /\ ~arming => after = before
           /\ arming => after.armed
           /\ (arming /\ unbound)
              => /\ after.hwnd = fn'.hwnd
                 /\ after.start_tabs = fn'.view.tabs
                 /\ after.start_tab_count = Len(fn'.view.tabs)
                 /\ after.start_selected_tab = fn'.view.sel
                 /\ after.start_selected_index = GetTabIndex(fn'.view.tabs, fn'.view.sel)
           /\ (arming /\ ~unbound)
              => /\ after.hwnd = before.hwnd
                 /\ after.start_tabs = before.start_tabs
                 /\ after.start_tab_count = before.start_tab_count
                 /\ after.start_selected_tab = before.start_selected_tab
                 /\ after.start_selected_index = before.start_selected_index]_vars

\* A move over the tab bar of window 2 binds a pending session to it.
C29_Witness ==
  /\ fn.op = "move" /\ fn.pressed /\ fn.on_bar /\ fn.hwnd = 2
  /\ last.ev = "move" /\ last.out = "armed"
  /\ drag_new_tab_state.armed /\ drag_new_tab_state.pending
  /\ drag_new_tab_state.hwnd = 2
  /\ drag_new_tab_state.start_tabs = fn.view.tabs
  /\ fn.view.tabs = <<2, 1>>

----------------------------------------------------------------------------
(* Releases, under Spec.                                                   *)

\* The release met the condition of lines 593-600.
ReleaseQualifies ==
  /\ last.ev = "up"
  /\ IsDragNewTabEnabled
  /\ last.on_strip
  /\ (last.was_armed \/ last.drag)

\* C30 as stated: a release either qualifies, and then a check is queued
\* and the event is passed on without bookmark handling, or it does not,
\* and then bookmark handling runs; armed is false and the press point
\* cleared afterwards.
C30_ReleaseQueuesOrClicks ==
  last.ev = "up" =>
    /\ ReleaseQualifies
       => last.out = "queued" /\ drag_new_tab_state.pending /\ ~last.handled
    /\ ~ReleaseQualifies => last.out = "click"
    /\ ~drag_new_tab_state.armed
    /\ lbutton_down_point = NoPoint

\* C30 amended: a release that qualifies reaches QueueDragNewTabCheck, which
\* queues the check or aborts on a container without tabs; in both cases
\* the event is passed on without bookmark handling.
C30_ReleaseChecksOrClicks ==
  last.ev = "up" =>
    /\ ReleaseQualifies
       => /\ last.out \in {"queued", "aborted"}
          /\ ~last.handled
          /\ last.out = "queued" <=> drag_new_tab_state.start_tabs # <<>>
          /\ last.out = "queued" => drag_new_tab_state.pending
    /\ ~ReleaseQualifies => last.out = "click"
    /\ ~drag_new_tab_state.armed
    /\ lbutton_down_point = NoPoint

\* An armed release at the press point queued a check.
C30_Witness ==
  /\ ReleaseQualifies /\ last.was_armed /\ ~last.drag
  /\ last.out = "queued" /\ ~last.handled
  /\ ~drag_new_tab_state.armed /\ lbutton_down_point = NoPoint

----------------------------------------------------------------------------
(* Where the new tab is when a fire has ended the session, under SpecFire  *)
(* (the host carries out every move command before the list is read       *)
(* again).                                                                 *)

\* C31: a fire that ends the session on a new tab, found in the list or
\* taken from the selection, leaves the new tab last in the tab list.
C31_NewTabLastAfterDone ==
  (fn.op = "poll" /\ last.out = "done" /\ fn.new_tab # NoTab)
  => /\ host.tabs # <<>>
     /\ host.tabs[Len(host.tabs)] = fn.new_tab

----------------------------------------------------------------------------
(* Pending sessions and poll timers, under Spec.                           *)

\* C32: the session is pending exactly when a poll timer is outstanding,
\* and attempts are left only to a pending session.
C32_PendingIffPollTimer ==
  /\ drag_new_tab_state.pending <=> poll_timers # {}
  /\ drag_new_tab_state.check_attempts > 0 => drag_new_tab_state.pending


\* A drop on a window without tabs was aborted over a pending session: the
\* session is still pending and its poll timer still set.
C32_Witness ==
  /\ last.ev = "up" /\ last.out = "aborted"
  /\ drag_new_tab_state.pending
  /\ drag_new_tab_state.check_attempts > 0
  /\ poll_timers = {drag_new_tab_timer}


----------------------------------------------------------------------------
(* A poll fire that is dispatched and delivered in two steps: the message   *)
(* loop has taken the timer message, and the hook handles pointer events    *)
(* before the procedure runs.  KillTimer does not take back a fire that is  *)
(* already dispatched.  fn keeps the fire in flight.                        *)

\* The message loop takes the timer message of a live poll timer.
DispatchPollFire ==
  /\ fn = NoFn
  /\ \E timer_id \in poll_timers :
       fn' = [op |-> "dispatched", timer_id |-> timer_id]
  /\ UNCHANGED <<config_mode, lbutton_down_point, drag_new_tab_state,
                 drag_new_tab_timer, drag_new_tab_restore_timer,
                 drag_new_tab_restore_tab, drag_new_tab_restore_attempts,
                 poll_timers, restore_timers, cmds, host, last>>

\* DragNewTabTimerProc runs for the dispatched fire, whatever became of its timer.
DeliverPollFire ==
  /\ fn.op = "dispatched"
  /\ PollFireOf(fn.timer_id, BOOLEAN, Views, {"ok"}, FALSE)
  /\ fn' = [op |-> "delivered", timer_id |-> fn.timer_id,
            was_pending |-> drag_new_tab_state.pending]

NextStale ==
  \/ fn = NoFn /\ LButtonDown(PressPoints, FALSE)
  \/ fn = NoFn /\ MouseMove(Windows, Views, FALSE)
  \/ fn = NoFn /\ LButtonUp(ReleasePoints, Windows, Views, FALSE)
  \/ fn = NoFn /\ PollTimerFire({TRUE}, Views, {"ok"}, FALSE)
  \/ fn = NoFn /\ RestoreTimerFire(Views, {"ok"}, FALSE)
  \/ fn = NoFn /\ ConfigChange(FALSE)
  \/ DispatchPollFire
  \/ fn.op = "dispatched" /\ LButtonDown(PressPoints, FALSE)
  \/ fn.op = "dispatched" /\ MouseMove(Windows, Views, FALSE)
  \/ fn.op = "dispatched" /\ LButtonUp(ReleasePoints, Windows, Views, FALSE)
  \/ fn.op = "dispatched" /\ ConfigChange(FALSE)
  \/ DeliverPollFire

SpecStale == Init /\ [][NextStale]_vars

\* C33: a poll fire delivered while the session is not pending issues no
\* command, sets no timer and changes nothing of the session; the poll timer
\* handle is zero after it.
C33_StaleFireIsNoOp ==
  [][(fn.op = "dispatched" /\ fn'.op = "delivered" /\ ~drag_new_tab_state.pending)
     => /\ cmds' = <<>>
        /\ poll_timers' \subseteq poll_timers
        /\ restore_timers' \subseteq restore_timers
        /\ drag_new_tab_state' = drag_new_tab_state
        /\ drag_new_tab_timer' = 0
        /\ drag_new_tab_restore_timer' = drag_new_tab_restore_timer
        /\ drag_new_tab_restore_tab' = drag_new_tab_restore_tab
        /\ drag_new_tab_restore_attempts' = drag_new_tab_restore_attempts
        /\ lbutton_down_point' = lbutton_down_point]_vars

\* A fire was dispatched, a press cancelled its session, and the fire was
\* delivered all the same; the snapshot of the cancelled session is still there.
C33_Witness ==
  /\ fn.op = "delivered" /\ ~fn.was_pending
  /\ last.ev = "poll" /\ last.out = "idle"
  /\ drag_new_tab_state.start_tabs # <<>>


----------------------------------------------------------------------------
(* The wheel and the right button in MouseProc.  fn keeps the static flag   *)
(* wheel_tab_ing_with_rbutton, the key state GetKeyState(VK_RBUTTON) reads, *)
(* the three options the handlers ask for, and two histories: how the       *)
(* latest wheel tab switch was made (since) and how many right-button-up    *)
(* events MouseProc has handled after it (ups, counted up to MaxUps).       *)

MaxUps == 2

CommandOf(name) == [cmd |-> name]

WheelInit ==
  {[op |-> "hook", wheel_tab_ing_with_rbutton |-> FALSE, rbutton |-> FALSE,
    wheel_tab |-> wt, wheel_tab_rb |-> wr, right_click_close |-> rc,
    since |-> "none", ups |-> 0] : wt, wr, rc \in BOOLEAN}

\* Lines 73-87; tcv and tcv2 are what the two GetTopContainerView calls find.
HandleFindBar(tcv, on_find, tcv2) ==
  IF tcv THEN [view |-> TRUE, cmds |-> <<>>]
  ELSE IF on_find THEN [view |-> FALSE, cmds |-> <<>>]
  ELSE [view |-> tcv2, cmds |-> <<CommandOf("IDC_CLOSE_FIND_OR_STOP")>>]

\* Lines 153-176.
HandleRightClick(f, shift, tcv, on_find, tcv2, on_tab, keep) ==
  LET bar == HandleFindBar(tcv, on_find, tcv2)
  IN IF shift \/ ~f.right_click_close THEN [ret |-> FALSE, cmds |-> <<>>]
     ELSE IF ~bar.view THEN [ret |-> FALSE, cmds |-> bar.cmds]
     ELSE IF ~on_tab THEN [ret |-> FALSE, cmds |-> bar.cmds]
     ELSE IF keep
     THEN [ret |-> TRUE,
           cmds |-> bar.cmds \o <<CommandOf("IDC_NEW_TAB"),
                                  CommandOf("IDC_WINDOW_CLOSE_OTHER_TABS")>>]
     ELSE [ret |-> TRUE, cmds |-> bar.cmds \o <<CommandOf("SendKey(VK_MBUTTON)")>>]

\* Lines 90-122; on_bar is IsOnTheTabBar(top_container_view, pt), up is zDelta > 0.
HandleMouseWheel(f, on_bar, up) ==
  LET switch_tabs ==
        [ret |-> TRUE,
         cmds |-> <<CommandOf(IF up THEN "IDC_SELECT_PREVIOUS_TAB"
                              ELSE "IDC_SELECT_NEXT_TAB")>>]
  IN IF ~f.wheel_tab /\ ~f.wheel_tab_rb THEN [ret |-> FALSE, cmds |-> <<>>]
     ELSE IF f.wheel_tab /\ on_bar THEN switch_tabs
     ELSE IF f.wheel_tab_rb /\ f.rbutton THEN switch_tabs
     ELSE [ret |-> FALSE, cmds |-> <<>>]

\* What MouseProc leaves of the drag-new-tab engine on these events.
HookLeavesDrag ==
  UNCHANGED <<config_mode, lbutton_down_point, drag_new_tab_state,
              drag_new_tab_timer, drag_new_tab_restore_timer,
              drag_new_tab_restore_tab, drag_new_tab_restore_attempts,
              poll_timers, restore_timers, host>>

\* Lines 548-558: a call that is no HC_ACTION, or a message Chrome++ sent itself.
HookPasses(ev) ==
  /\ cmds' = <<>>
  /\ last' = [NoLast EXCEPT !.ev = ev, !.out = "not_hooked"]
  /\ UNCHANGED fn
  /\ HookLeavesDrag

\* Mutant: every wheel tab switch marks the flag.
WheelMarksAlways(f, on_bar, up) ==
  LET r == HandleMouseWheel(f, on_bar, up)
  IN [f |-> IF r.ret
            THEN [f EXCEPT !.wheel_tab_ing_with_rbutton = TRUE,
                           !.since = IF f.rbutton THEN "rb" ELSE "plain",
                           !.ups = 0]
            ELSE f,
      handled |-> r.ret, cmds |-> r.cmds]

\* Lines 624-632: case WM_MOUSEWHEEL.
WheelCase(f, on_bar, up) ==
  LET r == HandleMouseWheel(f, on_bar, up)
  IN [f |-> IF r.ret
            THEN [f EXCEPT !.wheel_tab_ing_with_rbutton = f.rbutton,
                           !.since = IF f.rbutton THEN "rb" ELSE "plain",
                           !.ups = 0]
            ELSE f,
      handled |-> r.ret, cmds |-> r.cmds]

\* Lines 613-623: case WM_RBUTTONUP.  The key is up once the message is taken.
RButtonUpCase(f, shift, tcv, on_find, tcv2, on_tab, keep) ==
  LET g == [f EXCEPT !.rbutton = FALSE, !.ups = Min({MaxUps, @ + 1})]
      r == HandleRightClick(f, shift, tcv, on_find, tcv2, on_tab, keep)
  IN IF f.wheel_tab_ing_with_rbutton
     THEN [f |-> [g EXCEPT !.wheel_tab_ing_with_rbutton = FALSE],
           handled |-> TRUE, cmds |-> <<>>, out |-> "swallowed"]
     ELSE [f |-> g, handled |-> r.ret, cmds |-> r.cmds,
           out |-> IF r.ret THEN "closed" ELSE "pass"]

\* Lines 646-649.
HookReturns(ev, r, out) ==
  /\ fn' = r.f
  /\ cmds' = r.cmds
  /\ last' = [NoLast EXCEPT !.ev = ev, !.out = out, !.handled = r.handled]
  /\ HookLeavesDrag

MouseWheel ==
  \E hooked \in BOOLEAN :
    IF ~hooked THEN HookPasses("wheel")
    ELSE IF ~fn.wheel_tab /\ ~fn.wheel_tab_rb
    THEN HookReturns("wheel", WheelCase(fn, FALSE, FALSE), "pass")
    ELSE \E on_bar, up \in BOOLEAN :
           LET r == WheelCase(fn, on_bar, up)
           IN HookReturns("wheel", r, IF r.handled THEN "switched" ELSE "pass")

\* The switch has no case for WM_RBUTTONDOWN: the event passes.
RButtonDown ==
  \E hooked \in BOOLEAN :
    IF ~hooked THEN HookPasses("rdown")
    ELSE HookReturns("rdown",
                     [f |-> [fn EXCEPT !.rbutton = TRUE], handled |-> FALSE,
                      cmds |-> <<>>],
                     "pass")

RButtonUp ==
  \E hooked \in BOOLEAN :
    IF ~hooked THEN HookPasses("rup")
    ELSE IF fn.wheel_tab_ing_with_rbutton
    THEN LET r == RButtonUpCase(fn, FALSE, FALSE, FALSE, FALSE, FALSE, FALSE)
         IN HookReturns("rup", r, r.out)
    ELSE \E shift, tcv, on_find, tcv2, on_tab, keep \in BOOLEAN :
           LET r == RButtonUpCase(fn, shift, tcv, on_find, tcv2, on_tab, keep)
           IN HookReturns("rup", r, r.out)

\* The right button goes down or up where this hook does not see the message.
RButtonElsewhere ==
  /\ fn' = [fn EXCEPT !.rbutton = ~@]
  /\ cmds' = <<>>
  /\ last' = [NoLast EXCEPT !.ev = "elsewhere"]
  /\ HookLeavesDrag

InitWheel ==
  /\ config_mode = 0
  /\ host = NoView
  /\ lbutton_down_point = NoPoint
  /\ drag_new_tab_state = DragNewTabState
  /\ drag_new_tab_timer = 0
  /\ drag_new_tab_restore_timer = 0
  /\ drag_new_tab_restore_tab = NoTab
  /\ drag_new_tab_restore_attempts = 0
  /\ poll_timers = {}
  /\ restore_timers = {}
  /\ cmds = <<>>
  /\ last = NoLast
  /\ fn \in WheelInit

NextWheel ==
  \/ MouseWheel
  \/ RButtonDown
  \/ RButtonUp
  \/ RButtonElsewhere

SpecWheel == InitWheel /\ [][NextWheel]_vars

\* C34: a right-button-up that MouseProc handles is swallowed for the flag
\* exactly when the latest wheel tab switch was made with the right button
\* held and no right-button-up has been handled since; the swallowed release
\* clears the flag and issues no command, and a wheel tab switch leaves the
\* flag equal to the right button's state.
C34_SwallowOnceAfterWheelWithRButton ==
  [][/\ (last'.ev = "rup" /\ last'.out # "not_hooked")
        => /\ (last'.out = "swallowed") <=> (fn.since = "rb" /\ fn.ups = 0)
           /\ last'.out = "swallowed"
                => /\ last'.handled
                   /\ ~fn'.wheel_tab_ing_with_rbutton
                   /\ cmds' = <<>>
     /\ (last'.ev = "wheel" /\ last'.out = "switched")
        => fn'.wheel_tab_ing_with_rbutton = fn.rbutton]_vars

\* The release after a wheel tab switch with the right button held was
\* swallowed, with right-click-close enabled.
C34_Witness ==
  /\ fn.op = "hook" /\ fn.right_click_close
  /\ last.ev = "rup" /\ last.out = "swallowed"
  /\ fn.since = "rb" /\ fn.ups = 1
  /\ ~fn.wheel_tab_ing_with_rbutton


----------------------------------------------------------------------------
(* The unmute retries of the hide-window feature.  fn keeps is_hide,        *)
(* pending_unmute, the two retry counters, unmute_watch_active,             *)
(* saved_any_session for the mute state tracking, whether the retry timer   *)
(* is set and at which cadence, and one history: the retry fires since      *)
(* StartUnmuteRetries (fires, counted up to MaxRetryFires).  What           *)
(* MuteProcess, SetTimer and the session watch answer are inputs.           *)

kUnmuteRetryFastMax == 20

kUnmuteRetrySlowMax == 60

MaxRetryFires == 82

UnmuteInit ==
  [op |-> "unmute", is_hide |-> FALSE, pending_unmute |-> FALSE,
   unmute_retry_left |-> 0, unmute_retry_slow_left |-> 0,
   unmute_watch_active |-> FALSE, saved_any_session |-> FALSE,
   timer |-> "none", fires |-> 0]

\* Lines 269-273.
ResetMuteStateTracking(u) == [u EXCEPT !.saved_any_session = FALSE]

\* Lines 275-284.
ClearMuteStatesIfIdle(u) ==
  IF u.unmute_retry_left > 0 \/ u.unmute_retry_slow_left > 0 \/ u.unmute_watch_active
  THEN u
  ELSE ResetMuteStateTracking(u)

\* Lines 504-512.
StopUnmuteRetries(u, clear_state) ==
  LET k == [u EXCEPT !.timer = "none", !.unmute_retry_left = 0,
                     !.unmute_retry_slow_left = 0]
  IN IF clear_state THEN ClearMuteStatesIfIdle(k) ELSE k

\* Lines 514-531; set_ok is whether SetTimer succeeds.
StartUnmuteRetries(u, set_ok) ==
  LET k == [StopUnmuteRetries(u, FALSE) EXCEPT
              !.unmute_retry_left = kUnmuteRetryFastMax,
              !.unmute_retry_slow_left = kUnmuteRetrySlowMax,
              !.fires = 0]
  IN IF k.unmute_retry_left <= 0 /\ k.unmute_retry_slow_left <= 0 THEN k
     ELSE IF ~set_ok THEN StopUnmuteRetries(k, TRUE)
     ELSE [k EXCEPT !.timer = IF k.unmute_retry_left > 0 THEN "fast" ELSE "slow"]

\* Lines 625-648.
UnregisterUnmuteWatch(u, clear_state) ==
  LET k == [u EXCEPT !.unmute_watch_active = FALSE]
  IN IF clear_state THEN ClearMuteStatesIfIdle(k) ELSE k

\* Lines 650-687; reg_ok is whether a session manager took the notification.
RegisterUnmuteWatch(u, reg_ok) ==
  IF u.unmute_watch_active THEN u
  ELSE IF reg_ok THEN [u EXCEPT !.unmute_watch_active = TRUE]
  ELSE UnregisterUnmuteWatch(u, FALSE)

\* Lines 689-692.
StartUnmuteWatch(u, reg_ok) ==
  RegisterUnmuteWatch(UnregisterUnmuteWatch(u, FALSE), reg_ok)

\* Lines 714-738: the counters and the timer after the unmute attempt.
RetryCountDown(u, set_ok) ==
  LET fast == u.unmute_retry_left > 0
      c == IF fast THEN [u EXCEPT !.unmute_retry_left = @ - 1]
           ELSE IF u.unmute_retry_slow_left > 0
           THEN [u EXCEPT !.unmute_retry_slow_left = @ - 1]
           ELSE u
      to_slow == fast /\ c.unmute_retry_left <= 0 /\ c.unmute_retry_slow_left > 0
      d == IF to_slow THEN [c EXCEPT !.timer = "slow"] ELSE c
  IN IF to_slow /\ ~set_ok THEN StopUnmuteRetries(c, TRUE)
     ELSE IF d.unmute_retry_left <= 0 /\ d.unmute_retry_slow_left <= 0
     THEN IF d.pending_unmute
          THEN IF set_ok
               THEN [d EXCEPT !.unmute_retry_slow_left = kUnmuteRetrySlowMax,
                              !.timer = "slow"]
               ELSE StopUnmuteRetries(
                      [d EXCEPT !.unmute_retry_slow_left = kUnmuteRetrySlowMax], TRUE)
          ELSE StopUnmuteRetries(d, TRUE)
     ELSE d

\* Lines 694-739; clears is whether MuteProcess saw a session and settled it.
HandleUnmuteRetryTimer(u, clears, reg_ok, set_ok) ==
  LET n == [u EXCEPT !.fires = Min({MaxRetryFires, @ + 1})]
      p == IF clears THEN [n EXCEPT !.pending_unmute = FALSE] ELSE n
  IN IF n.is_hide THEN StopUnmuteRetries(n, TRUE)
     ELSE IF ~n.pending_unmute THEN StopUnmuteRetries(n, TRUE)
     ELSE RetryCountDown(RegisterUnmuteWatch(p, reg_ok), set_ok)

\* Lines 741-784; did_mute and saved are what MuteProcess did when hiding.
HideAndShow(u, did_mute, saved, clears, reg_ok, set_ok) ==
  LET h0 == ResetMuteStateTracking(
              UnregisterUnmuteWatch(StopUnmuteRetries(u, FALSE), FALSE))
      h1 == [h0 EXCEPT !.pending_unmute = did_mute, !.saved_any_session = saved]
      s0 == IF clears THEN [u EXCEPT !.pending_unmute = FALSE] ELSE u
      s1 == IF s0.pending_unmute
            THEN StartUnmuteWatch(StartUnmuteRetries(s0, set_ok), reg_ok)
            ELSE s0
      r == IF ~u.is_hide THEN h1 ELSE s1
  IN [r EXCEPT !.is_hide = ~u.is_hide]

\* Lines 578-618: the watch reports a new audio session.
OnSessionCreated(u, clears) ==
  IF ~u.unmute_watch_active \/ u.is_hide \/ ~u.pending_unmute THEN u
  ELSE IF clears THEN [u EXCEPT !.pending_unmute = FALSE]
  ELSE u

UnmuteReturns(ev, u) ==
  /\ fn' = u
  /\ cmds' = <<>>
  /\ last' = [NoLast EXCEPT !.ev = ev,
                            !.out = IF u.timer = "none" THEN "stopped" ELSE u.timer]
  /\ HookLeavesDrag

\* The boss key, to hide.
HideWindows ==
  /\ ~fn.is_hide
  /\ \E did_mute \in BOOLEAN :
       \E saved \in (IF did_mute THEN {TRUE} ELSE BOOLEAN) :
         UnmuteReturns("hide", HideAndShow(fn, did_mute, saved, FALSE, FALSE, FALSE))

\* The boss key, to show again.
ShowWindows ==
  /\ fn.is_hide
  /\ IF ~fn.pending_unmute
     THEN UnmuteReturns("show", HideAndShow(fn, FALSE, FALSE, FALSE, FALSE, FALSE))
     ELSE \E clears \in BOOLEAN :
            IF clears
            THEN UnmuteReturns("show",
                               HideAndShow(fn, FALSE, FALSE, TRUE, FALSE, FALSE))
            ELSE \E reg_ok, set_ok \in BOOLEAN :
                   UnmuteReturns("show",
                                 HideAndShow(fn, FALSE, FALSE, FALSE, reg_ok, set_ok))

\* WM_TIMER of the retry timer.
UnmuteRetryFire ==
  /\ fn.timer # "none"
  /\ fn.fires < MaxRetryFires
  /\ IF fn.is_hide \/ ~fn.pending_unmute
     THEN UnmuteReturns("retry", HandleUnmuteRetryTimer(fn, FALSE, FALSE, FALSE))
     ELSE \E clears, reg_ok, set_ok \in BOOLEAN :
            UnmuteReturns("retry", HandleUnmuteRetryTimer(fn, clears, reg_ok, set_ok))

SessionCreated ==
  /\ fn.unmute_watch_active
  /\ \E clears \in BOOLEAN :
       UnmuteReturns("session", OnSessionCreated(fn, clears))

InitUnmute ==
  /\ config_mode = 0
  /\ host = NoView
  /\ lbutton_down_point = NoPoint
  /\ drag_new_tab_state = DragNewTabState
  /\ drag_new_tab_timer = 0
  /\ drag_new_tab_restore_timer = 0
  /\ drag_new_tab_restore_tab = NoTab
  /\ drag_new_tab_restore_attempts = 0
  /\ poll_timers = {}
  /\ restore_timers = {}
  /\ cmds = <<>>
  /\ last = NoLast
  /\ fn = UnmuteInit

NextUnmute ==
  \/ HideWindows
  \/ ShowWindows
  \/ UnmuteRetryFire
  \/ SessionCreated

SpecUnmute == InitUnmute /\ [][NextUnmute]_vars

\* C35: once kUnmuteRetryFastMax + kUnmuteRetrySlowMax retry fires have run
\* since the retries were started, the retries have stopped: both counters
\* are 0 and the retry timer is killed.
C35_RetriesStopAfterBudget ==
  fn.op = "unmute" /\ fn.fires >= kUnmuteRetryFastMax + kUnmuteRetrySlowMax
  => /\ fn.unmute_retry_left = 0
     /\ fn.unmute_retry_slow_left = 0
     /\ fn.timer = "none"

====
